---- MODULE Spec2Model ----
(***************************************************************************)
(* A model of the query-rewriting, execution and statement-synthesis core  *)
(* of the DB class (src/unnamed/part_002, the current index.ts) and of its *)
(* helpers in src/utils.  SQL text is modelled as TLA+ strings handled     *)
(* character by character, so that the regular expressions and the         *)
(* String.replace calls of the source are computed, not assumed.           *)
(***************************************************************************)
EXTENDS Integers, Sequences, FiniteSets, TLC

(***************************************************************************)
(* JavaScript string primitives                                            *)
(***************************************************************************)

\* s[i] as a one-character string ("" outside the string)
CharAt(s, i) == IF i >= 1 /\ i <= Len(s) THEN SubSeq(s, i, i) ELSE ""

UpperLetters ==
  <<"A","B","C","D","E","F","G","H","I","J","K","L","M",
    "N","O","P","Q","R","S","T","U","V","W","X","Y","Z">>

LowerLetters ==
  <<"a","b","c","d","e","f","g","h","i","j","k","l","m",
    "n","o","p","q","r","s","t","u","v","w","x","y","z">>

Digits == {"0","1","2","3","4","5","6","7","8","9"}

\* the lower-case letter of each upper-case letter
ToLower == [c \in {UpperLetters[k] : k \in 1..26} |->
              LowerLetters[CHOOSE k \in 1..26 : UpperLetters[k] = c]]

\* toLowerCase of one character (the /i flag of the regular expressions)
LowerChar(c) == IF c \in DOMAIN ToLower THEN ToLower[c] ELSE c

\* [A-Za-z0-9_]
WordChars ==
  {UpperLetters[k] : k \in 1..26} \cup {LowerLetters[k] : k \in 1..26} \cup Digits \cup {"_"}

\* \w of the regular expressions
IsWordChar(c) == c \in WordChars

\* \s of the regular expressions
IsSpace(c) == c \in {" ", "\n", "\t"}

\* pat occurs in s at position i, exactly
MatchAt(s, i, pat) ==
  /\ i >= 1
  /\ i + Len(pat) - 1 <= Len(s)
  /\ SubSeq(s, i, i + Len(pat) - 1) = pat

\* pat (given in lower case) occurs in s at position i, ignoring case
MatchAtCI(s, i, pat) ==
  /\ i >= 1
  /\ i + Len(pat) - 1 <= Len(s)
  /\ \A k \in 1..Len(pat) : LowerChar(CharAt(s, i + k - 1)) = CharAt(pat, k)

\* String.prototype.includes
Includes(s, pat) == \E i \in 1..Len(s) : MatchAt(s, i, pat)

\* s.toLowerCase().includes(pat), pat in lower case
IncludesLower(s, pat) == \E i \in 1..Len(s) : MatchAtCI(s, i, pat)

\* String.prototype.indexOf, 1-based; 0 when pat does not occur
IndexOf(s, pat) ==
  IF Includes(s, pat)
  THEN CHOOSE i \in 1..Len(s) :
         /\ MatchAt(s, i, pat)
         /\ \A j \in 1..(i - 1) : ~MatchAt(s, j, pat)
  ELSE 0

\* String.prototype.replace(pat, rep) with a string pattern: the first
\* occurrence only (rep holds no $-pattern in any call of the source)
ReplaceFirst(s, pat, rep) ==
  LET i == IndexOf(s, pat) IN
  IF i = 0 THEN s
  ELSE SubSeq(s, 1, i - 1) \o rep \o SubSeq(s, i + Len(pat), Len(s))

\* \b of the regular expressions, between positions i-1 and i
WordBoundary(s, i) == IsWordChar(CharAt(s, i - 1)) # IsWordChar(CharAt(s, i))

\* first position >= i that holds no white space (\s* is greedy)
RECURSIVE SkipSpace(_, _)
SkipSpace(s, i) ==
  IF i <= Len(s) /\ IsSpace(CharAt(s, i)) THEN SkipSpace(s, i + 1) ELSE i

\* first position >= i that holds no word character (\w+ is greedy)
RECURSIVE SkipWord(_, _)
SkipWord(s, i) ==
  IF i <= Len(s) /\ IsWordChar(CharAt(s, i)) THEN SkipWord(s, i + 1) ELSE i

(***************************************************************************)
(* JavaScript values.  Every value is a record of one shape: k is the kind,*)
(* n the integer (part) of a number or the truth of a boolean, s the text  *)
(* of a string, a the elements of an array or Set, or the key/value        *)
(* entries of an object in insertion order.                                *)
(***************************************************************************)

Undefined == [k |-> "undefined", n |-> 0, s |-> "", a |-> <<>>]

Null == [k |-> "null", n |-> 0, s |-> "", a |-> <<>>]

Num(i) == [k |-> "number", n |-> i, s |-> "", a |-> <<>>]

\* a number with a fractional part, i + 1/2
Frac(i) == [k |-> "float", n |-> i, s |-> "", a |-> <<>>]

NaN == [k |-> "nan", n |-> 0, s |-> "", a |-> <<>>]

Str(t) == [k |-> "string", n |-> 0, s |-> t, a |-> <<>>]

Bool(b) == [k |-> "boolean", n |-> IF b THEN 1 ELSE 0, s |-> "", a |-> <<>>]

Arr(elems) == [k |-> "array", n |-> 0, s |-> "", a |-> elems]

Obj(entries) == [k |-> "object", n |-> 0, s |-> "", a |-> entries]

Entry(key, value) == [key |-> key, value |-> value]

\* the typeof operator
TypeOf(v) ==
  CASE v.k = "undefined" -> "undefined"
    [] v.k \in {"number", "float", "nan"} -> "number"
    [] v.k = "string" -> "string"
    [] v.k = "boolean" -> "boolean"
    [] OTHER -> "object"

\* Boolean(v): the truthiness of a value
Truthy(v) ==
  CASE v.k \in {"undefined", "null", "nan"} -> FALSE
    [] v.k = "number" -> v.n # 0
    [] v.k = "string" -> v.s # ""
    [] v.k = "boolean" -> v.n = 1
    [] OTHER -> TRUE

IsArray(v) == v.k = "array"

\* obj?.[key]: the property of an object, undefined when absent or when
\* obj is null or undefined
Get(obj, key) ==
  IF obj.k = "object" /\ \E i \in 1..Len(obj.a) : obj.a[i].key = key
  THEN obj.a[CHOOSE i \in 1..Len(obj.a) : obj.a[i].key = key].value
  ELSE Undefined

\* key in obj
HasKey(obj, key) == obj.k = "object" /\ \E i \in 1..Len(obj.a) : obj.a[i].key = key

\* obj[key] = value: overwrite in place, or append a new property
SetKey(obj, key, value) ==
  IF HasKey(obj, key)
  THEN [obj EXCEPT !.a = [i \in 1..Len(obj.a) |->
                            IF obj.a[i].key = key THEN Entry(key, value) ELSE obj.a[i]]]
  ELSE [obj EXCEPT !.a = Append(obj.a, Entry(key, value))]

\* value?.[0]
Index0(v) ==
  CASE v.k = "array" /\ Len(v.a) > 0 -> v.a[1]
    [] v.k = "string" /\ Len(v.s) > 0 -> Str(CharAt(v.s, 1))
    [] OTHER -> Undefined

DigitChars == <<"0","1","2","3","4","5","6","7","8","9">>

\* String(i) of a non-negative integer
RECURSIVE NatToString(_)
NatToString(i) ==
  IF i < 10 THEN DigitChars[i + 1]
  ELSE NatToString(i \div 10) \o DigitChars[(i % 10) + 1]

\* Object.entries(v) of an object or an array
Entries(v) ==
  CASE v.k = "object" -> v.a
    [] v.k = "array" -> [i \in 1..Len(v.a) |-> Entry(NatToString(i - 1), v.a[i])]
    [] OTHER -> <<>>

\* Array.prototype.join over a sequence of strings
RECURSIVE Join(_, _)
Join(parts, sep) ==
  IF Len(parts) = 0 THEN ""
  ELSE IF Len(parts) = 1 THEN parts[1]
  ELSE parts[1] \o sep \o Join(Tail(parts), sep)

(***************************************************************************)
(* src/utils/extract-openjson.ts                                           *)
(***************************************************************************)

\* /\b(?:in)\s*\(\s*@_(\w+)\s*\)/gi tried at position i: the position after
\* the closing parenthesis and the captured name, or end 0 for no match
InClauseAt(s, i) ==
  LET p2 == SkipSpace(s, i + 2)
      p3 == SkipSpace(s, p2 + 1)
      p4 == p3 + 2
      p5 == SkipWord(s, p4)
      p6 == SkipSpace(s, p5)
  IN IF /\ WordBoundary(s, i)
        /\ MatchAtCI(s, i, "in")
        /\ CharAt(s, p2) = "("
        /\ MatchAt(s, p3, "@_")
        /\ p5 > p4
        /\ CharAt(s, p6) = ")"
     THEN [end |-> p6 + 1, name |-> SubSeq(s, p4, p5 - 1)]
     ELSE [end |-> 0, name |-> ""]

\* the regex.exec loop of extractOpenJson from position i on
RECURSIVE ExtractOpenJsonFrom(_, _)
ExtractOpenJsonFrom(s, i) ==
  LET hits == { j \in i..Len(s) : InClauseAt(s, j).end # 0 } IN
  IF hits = {} THEN <<>>
  ELSE LET first == CHOOSE j \in hits : \A k \in hits : j <= k
           m == InClauseAt(s, first)
       IN <<m.name>> \o ExtractOpenJsonFrom(s, m.end)

extractOpenJson(input) == ExtractOpenJsonFrom(input, 1)

\* the lazy (.*?)\)(?!\s*WITH) part: the position of the first closing
\* parenthesis at or after e that is not followed by WITH, reached without
\* crossing a line break; 0 when there is none
LazyClose(s, e) ==
  LET closes == { j \in e..Len(s) :
                    /\ CharAt(s, j) = ")"
                    /\ ~MatchAtCI(s, SkipSpace(s, j + 1), "with")
                    /\ \A k \in e..(j - 1) : CharAt(s, k) # "\n" }
  IN IF closes = {} THEN 0
     ELSE CHOOSE j \in closes : \A k \in closes : j <= k

\* /OPENJSON\(@_(.*?)\)(?!\s*WITH)/gi tried at position i
OpenJsonAt(s, i) ==
  IF MatchAtCI(s, i, "openjson(") /\ MatchAt(s, i + 9, "@_")
  THEN LET e == LazyClose(s, i + 11) IN
       IF e # 0 THEN [end |-> e + 1, name |-> SubSeq(s, i + 11, e - 1)]
       ELSE [end |-> 0, name |-> ""]
  ELSE [end |-> 0, name |-> ""]

RECURSIVE ExtractOpenJsonObjectsFrom(_, _)
ExtractOpenJsonObjectsFrom(s, i) ==
  LET hits == { j \in i..Len(s) : OpenJsonAt(s, j).end # 0 } IN
  IF hits = {} THEN <<>>
  ELSE LET first == CHOOSE j \in hits : \A k \in hits : j <= k
           m == OpenJsonAt(s, first)
       IN <<m.name>> \o ExtractOpenJsonObjectsFrom(s, m.end)

extractOpenJsonObjects(input) == ExtractOpenJsonObjectsFrom(input, 1)

\* getSqlType of generateOpenJsonQueryWithClause
getSqlType(value) ==
  CASE value.k = "number" -> "BIGINT"
    [] value.k \in {"float", "nan"} -> "FLOAT"
    [] value.k = "boolean" -> "BIT"
    [] value.k = "string" -> IF Len(value.s) > 255 THEN "NVARCHAR(MAX)" ELSE "NVARCHAR(255)"
    [] OTHER -> "NVARCHAR(MAX)"

\* sqlType of the primitive-array case of generateOpenJsonQueryWithClause
primitiveSqlType(value) ==
  CASE value.k = "number" -> "BIGINT"
    [] value.k \in {"float", "nan"} -> "FLOAT"
    [] value.k = "boolean" -> "BIT"
    [] OTHER -> "NVARCHAR(MAX)"

\* the WITH clause for an array; err is the message of the error thrown
generateOpenJsonQueryWithClause(data, fieldName) ==
  IF Len(data.a) = 0 THEN [err |-> "JSON data is empty.", text |-> ""]
  ELSE
    LET first == data.a[1]
        ents == Entries(first)
        withClause ==
          IF TypeOf(first) = "object" /\ first.k # "null"
          THEN Join([i \in 1..Len(ents) |->
                       ents[i].key \o " " \o getSqlType(ents[i].value)
                         \o " '$." \o ents[i].key \o "'"], ",\n ")
          ELSE "value " \o primitiveSqlType(first) \o " '$' "
    IN [err |-> "", text |-> "\n    WITH(\n" \o withClause \o "\n)\n  "]

(***************************************************************************)
(* The statement rewriter, #get.query                                      *)
(***************************************************************************)

\* #get.keys: lodash map over the bag, [] for null or undefined
getKeys(params) == IF params.k = "object" THEN params.a ELSE <<>>

\* lodash find(pars, { key })?.value
FindValue(pars, key) ==
  IF \E i \in 1..Len(pars) : pars[i].key = key
  THEN pars[CHOOSE i \in 1..Len(pars) :
              /\ pars[i].key = key
              /\ \A j \in 1..(i - 1) : pars[j].key # key].value
  ELSE Undefined

\* the forEach over the names extractOpenJson found: one String.replace of
\* the first occurrence of the reference per name bound to an array
RECURSIVE ExpandMembership(_, _, _)
ExpandMembership(query, keys, pars) ==
  IF Len(keys) = 0 THEN query
  ELSE LET key == Head(keys)
           next == IF IsArray(FindValue(pars, key))
                   THEN ReplaceFirst(query, "@_" \o key,
                                     "select value from openjson(@_" \o key \o ")")
                   ELSE query
       IN ExpandMembership(next, Tail(keys), pars)

\* the forEach over the names extractOpenJsonObjects found
RECURSIVE ExpandObjects(_, _, _)
ExpandObjects(acc, keys, pars) ==
  IF Len(keys) = 0 \/ acc.err # "" THEN acc
  ELSE LET key == Head(keys)
           value == FindValue(pars, key)
           v == Index0(value)
           clause == generateOpenJsonQueryWithClause(value, key)
           next == IF Truthy(v) /\ TypeOf(v) = "object" /\ IsArray(value)
                   THEN IF clause.err # "" THEN [err |-> clause.err, query |-> acc.query]
                        ELSE [err |-> "",
                              query |-> ReplaceFirst(acc.query, "@_" \o key \o ")",
                                          "@_" \o key \o ") " \o clause.text)]
                   ELSE acc
       IN ExpandObjects(next, Tail(keys), pars)

PagingClause == "\nOFFSET @_page * @_limit ROWS FETCH NEXT @_limit ROWS ONLY;"

\* /\btop\b/i.test(query)
HasTop(query) ==
  \E i \in 1..Len(query) :
    /\ MatchAtCI(query, i, "top")
    /\ WordBoundary(query, i)
    /\ WordBoundary(query, i + 3)

\* mutant: the paging keyword looked for without lower-casing the statement
InjectsPaging_CaseSensitive(query, params, suppressPaging) ==
  /\ ~suppressPaging
  /\ TypeOf(Get(params, "limit")) = "number"
  /\ Get(params, "limit").k # "nan"
  /\ ~Includes(query, "fetch next")
  /\ ~HasTop(query)
  /\ IncludesLower(query, "order by")

\* the condition of the paging injection
InjectsPaging(query, params, suppressPaging) ==
  /\ ~suppressPaging
  /\ TypeOf(Get(params, "limit")) = "number"
  /\ Get(params, "limit").k # "nan"
  /\ ~IncludesLower(query, "fetch next")
  /\ ~HasTop(query)
  /\ IncludesLower(query, "order by")

\* #get.query(query, params, suppressPaging) on an instance whose
\* config.useOpenJson is useOpenJson; err is the message of an error thrown
getQuery(query, params, suppressPaging, useOpenJson) ==
  LET pars == getKeys(params)
      q1 == IF useOpenJson
            THEN ExpandMembership(query, extractOpenJson(query), pars)
            ELSE query
      r2 == IF useOpenJson
            THEN ExpandObjects([err |-> "", query |-> q1], extractOpenJsonObjects(q1), pars)
            ELSE [err |-> "", query |-> q1]
  IN IF r2.err # "" THEN r2
     ELSE IF InjectsPaging(r2.query, params, suppressPaging)
          THEN [err |-> "", query |-> r2.query \o PagingClause]
          ELSE r2

(***************************************************************************)
(* Result shaping: #coerceRow, #parseRows, #parseRecordsets                *)
(***************************************************************************)

\* /^-?\d+$/.test(str)
IsIntegerText(str) ==
  LET start == IF CharAt(str, 1) = "-" THEN 2 ELSE 1 IN
  /\ Len(str) >= start
  /\ \A i \in start..Len(str) : CharAt(str, i) \in Digits

DigitValue(c) == CHOOSE d \in 0..9 : DigitChars[d + 1] = c

RECURSIVE DigitsToNat(_, _)
DigitsToNat(str, acc) ==
  IF Len(str) = 0 THEN acc
  ELSE DigitsToNat(SubSeq(str, 2, Len(str)), 10 * acc + DigitValue(CharAt(str, 1)))

\* Number(str) of a text that passed IsIntegerText
TextToNumber(str) ==
  IF CharAt(str, 1) = "-"
  THEN Num(0 - DigitsToNat(SubSeq(str, 2, Len(str)), 0))
  ELSE Num(DigitsToNat(str, 0))

\* JSON.parse(str) for the cell texts the driver model produces: the three
\* literals parse, any other text of CellTexts is no JSON and throws
JSONParse(str) ==
  CASE str = "null" -> [ok |-> TRUE, value |-> Null]
    [] str = "true" -> [ok |-> TRUE, value |-> Bool(TRUE)]
    [] str = "false" -> [ok |-> TRUE, value |-> Bool(FALSE)]
    [] OTHER -> [ok |-> FALSE, value |-> Undefined]

\* mutant: the forEach of #coerceRow without its branch for null
coerceCell_NullKept(cell) ==
  IF cell.k = "string"
  THEN IF IsIntegerText(cell.s) THEN TextToNumber(cell.s)
       ELSE IF JSONParse(cell.s).ok THEN JSONParse(cell.s).value
       ELSE cell
  ELSE cell

\* the body of the forEach of #coerceRow for one cell
coerceCell(cell) ==
  IF cell.k = "null" THEN Undefined
  ELSE IF cell.k = "string"
       THEN IF IsIntegerText(cell.s) THEN TextToNumber(cell.s)
            ELSE IF JSONParse(cell.s).ok THEN JSONParse(cell.s).value
            ELSE cell
       ELSE cell

coerceRow(o) ==
  IF ~Truthy(o) THEN o
  ELSE [o EXCEPT !.a = [i \in 1..Len(o.a) |-> Entry(o.a[i].key, coerceCell(o.a[i].value))]]

parseRows(rows) ==
  IF ~IsArray(rows) THEN Arr(<<>>)
  ELSE Arr([i \in 1..Len(rows.a) |-> coerceRow(rows.a[i])])

parseRecordsets(recordsets) ==
  IF ~IsArray(recordsets) THEN Arr(<<>>)
  ELSE Arr([i \in 1..Len(recordsets.a) |-> parseRows(recordsets.a[i])])

\* v ?? d
Coalesce(v, d) == IF v.k \in {"undefined", "null"} THEN d ELSE v

(***************************************************************************)
(* #normalizeExecOptions and the success path of #exec                     *)
(***************************************************************************)

normalizeExecOptions(optionsOrBoolean) ==
  LET base == IF TypeOf(optionsOrBoolean) = "boolean"
              THEN Obj(<<Entry("result",
                               IF Truthy(optionsOrBoolean) THEN Str("first") ELSE Str("rows"))>>)
              ELSE IF Truthy(optionsOrBoolean) THEN optionsOrBoolean ELSE Obj(<<>>)
  IN Obj(<<Entry("result", Coalesce(Get(base, "result"), Str("rows"))),
           Entry("parse", Bool(Get(base, "parse") # Bool(FALSE))),
           Entry("rowcountOne", Bool(Get(base, "rowcountOne") = Bool(TRUE))),
           Entry("applyPaging", Coalesce(Get(base, "applyPaging"), Str("auto"))),
           Entry("limit", Coalesce(Get(base, "limit"), Num(0)))>>)

\* #exec's result modes with the test of opts.limit left out
ShapeResult_WithoutLimit(result, opts) ==
  LET parse == Truthy(Get(opts, "parse"))
      mode == Get(opts, "result")
      parsedSets == parseRecordsets(Get(result, "recordsets"))
      rows == Coalesce(Index0(Get(result, "recordsets")), Arr(<<>>))
      parsedRows == IF parse THEN parseRows(rows) ELSE rows
  IN CASE mode = Str("meta") ->
            IF ~parse THEN result
            ELSE SetKey(SetKey(result, "recordsets", parsedSets),
                        "recordset", Coalesce(Index0(parsedSets), Arr(<<>>)))
       [] mode = Str("sets") ->
            IF parse THEN parsedSets ELSE Get(result, "recordsets")
       [] OTHER ->
            IF mode = Str("first")
            THEN Coalesce(Index0(parsedRows), Undefined)
            ELSE parsedRows

\* what #exec returns for a driver result, by result mode
ShapeResult(result, opts) ==
  LET parse == Truthy(Get(opts, "parse"))
      mode == Get(opts, "result")
      parsedSets == parseRecordsets(Get(result, "recordsets"))
      rows == Coalesce(Index0(Get(result, "recordsets")), Arr(<<>>))
      parsedRows == IF parse THEN parseRows(rows) ELSE rows
  IN CASE mode = Str("meta") ->
            IF ~parse THEN result
            ELSE SetKey(SetKey(result, "recordsets", parsedSets),
                        "recordset", Coalesce(Index0(parsedSets), Arr(<<>>)))
       [] mode = Str("sets") ->
            IF parse THEN parsedSets ELSE Get(result, "recordsets")
       [] OTHER ->
            IF mode = Str("first") \/ Get(opts, "limit") = Num(1)
            THEN Coalesce(Index0(parsedRows), Undefined)
            ELSE parsedRows

(***************************************************************************)
(* The catch block of #exec                                                *)
(***************************************************************************)

MaxRetries == 5

RetryDelayMs == 450

\* err.message.includes("deadlock") || err.message.includes("unknown reason")
IsTransient(err) ==
  Includes(err.message, "deadlock") \/ Includes(err.message, "unknown reason")

\* mutant: the retry bound off by one
ShouldRetry_OneMore(err, retryCount) == IsTransient(err) /\ retryCount <= MaxRetries

\* the condition under which the catch block re-enters #exec after the delay
ShouldRetry(err, retryCount) == IsTransient(err) /\ retryCount < MaxRetries

\* /\bFETCH\s+NEXT\b/i.test(_sqlText)
hadFetchNext(sqlText) ==
  \E i \in 1..Len(sqlText) :
    /\ MatchAtCI(sqlText, i, "fetch")
    /\ WordBoundary(sqlText, i)
    /\ SkipSpace(sqlText, i + 5) > i + 5
    /\ MatchAtCI(sqlText, SkipSpace(sqlText, i + 5), "next")
    /\ WordBoundary(sqlText, SkipSpace(sqlText, i + 5) + 4)

isNextUsageError(err) ==
  err.number = 153 \/ Includes(err.message, "usage of the option NEXT")

\* mutant: the fallback allowed from the fallback execution as well
ShouldFallback_Nested(err, query, retryCount) ==
  (hadFetchNext(query) \/ isNextUsageError(err)) /\ retryCount < 2

\* mutant: the fallback bounded by the retry limit instead of the first execution
ShouldFallback_RetryBound(err, query, retryCount) ==
  (hadFetchNext(query) \/ isNextUsageError(err)) /\ retryCount < MaxRetries + 1

\* the condition under which the catch block runs the original statement once
ShouldFallback(err, query, retryCount) ==
  (hadFetchNext(query) \/ isNextUsageError(err)) /\ retryCount < 1

\* an Error thrown by the library itself
PlainError(message) ==
  [name |-> "Error", number |-> 0, message |-> message,
   database |-> "", qry |-> "", params |-> Undefined]

NoError == [name |-> "", number |-> 0, message |-> "",
            database |-> "", qry |-> "", params |-> Undefined]

\* parseMSSQLError(err, { query, params: params || {}, config })
parseMSSQLError(err, query, params, cfg) ==
  [name |-> "DBError",
   number |-> err.number,
   message |-> IF err.message # "" THEN err.message ELSE "Unknown database error",
   database |-> Get(cfg, "database").s,
   qry |-> query,
   params |-> IF Truthy(params) THEN params ELSE Obj(<<>>)]

(***************************************************************************)
(* src/utils/validate-table-name.ts                                        *)
(***************************************************************************)

\* String.prototype.split(sep) for a one-character separator
RECURSIVE SplitFrom(_, _, _)
SplitFrom(s, sep, start) ==
  LET seps == { j \in start..Len(s) : CharAt(s, j) = sep } IN
  IF seps = {} THEN <<SubSeq(s, start, Len(s))>>
  ELSE LET first == CHOOSE j \in seps : \A k \in seps : j <= k
       IN <<SubSeq(s, start, first - 1)>> \o SplitFrom(s, sep, first + 1)

Split(s, sep) == SplitFrom(s, sep, 1)

\* /^[a-zA-Z0-9_#.\[\]]+$/
validPattern(tableName) ==
  /\ Len(tableName) > 0
  /\ \A i \in 1..Len(tableName) :
       IsWordChar(CharAt(tableName, i)) \/ CharAt(tableName, i) \in {"#", ".", "[", "]"}

\* mutant: the list of patterns without the last one, alter
dangerousPatterns_NoAlter ==
  <<";", "--", "/*", "*/", "'", "\"", "xp_", "sp_", "exec", "execute", "drop",
    "truncate">>

\* the dangerousPatterns, the case-insensitive ones in lower case
dangerousPatterns ==
  <<";", "--", "/*", "*/", "'", "\"", "xp_", "sp_", "exec", "execute", "drop",
    "truncate", "alter">>

IsDangerous(part) ==
  \E k \in 1..Len(dangerousPatterns) : IncludesLower(part, dangerousPatterns[k])

\* mutant: every name is accepted
validateTableName_Unchecked(tableName) == ""

\* validateTableName: "" when the name is accepted, else the error thrown
validateTableName(tableName) ==
  IF tableName = "" THEN "Table name must be a non-empty string"
  ELSE IF ~validPattern(tableName)
       THEN "Invalid table name: \"" \o tableName \o "\". Table names can only contain letters, numbers, underscores, dots, and hash symbols for temp tables."
  ELSE LET parts == Split(tableName, ".") IN
       IF Len(parts) > 3
       THEN "Invalid table name: \"" \o tableName \o "\". Maximum format is database.schema.table"
       ELSE IF \E i \in 1..Len(parts) : parts[i] # "" /\ IsDangerous(parts[i])
            THEN LET bad == CHOOSE i \in 1..Len(parts) :
                              /\ parts[i] # "" /\ IsDangerous(parts[i])
                              /\ \A j \in 1..(i - 1) : ~(parts[j] # "" /\ IsDangerous(parts[j]))
                 IN "Invalid table name: \"" \o tableName
                      \o "\". Contains potentially dangerous pattern in \"" \o parts[bad] \o "\""
            ELSE ""

(***************************************************************************)
(* Schema introspection and statement synthesis, #get                      *)
(***************************************************************************)

\* const isDefined = (value) => Boolean(value)
isDefined(value) == Truthy(value)

\* #get.schema.parts: the last three dot-separated parts of the name, after
\* the first ".." became ".dbo."; an absent part is undefined
schemaParts(tableName) ==
  LET parts == Split(ReplaceFirst(tableName, "..", ".dbo."), ".")
      n == Len(parts)
  IN [table |-> Str(parts[n]),
      schema |-> IF n >= 2 THEN Str(parts[n - 1]) ELSE Undefined,
      catalog |-> IF n >= 3 THEN Str(parts[n - 2]) ELSE Undefined]

\* const catalogStr = catalog ? `${catalog}.` : ""
catalogStr(tableName) ==
  IF Truthy(schemaParts(tableName).catalog)
  THEN schemaParts(tableName).catalog.s \o "."
  ELSE ""

\* the bag { table, schema } of the introspection queries
SchemaBag(tableName) ==
  Obj(<<Entry("table", schemaParts(tableName).table),
        Entry("schema", schemaParts(tableName).schema)>>)

HasSchema(tableName) == Truthy(schemaParts(tableName).schema)

\* the first query of #get.schema.primaryKey (indentation not reproduced)
PrimaryKeyQuery(tableName) ==
  "select col.column_name as column_name, \n"
    \o "COLUMNPROPERTY(OBJECT_ID(col.TABLE_CATALOG +'.' +col.TABLE_SCHEMA +'.'+  col.TABLE_NAME), col.COLUMN_NAME, 'IsIdentity') AS isIdentity\n"
    \o "from " \o catalogStr(tableName) \o "information_schema.table_constraints tab \n"
    \o "inner join " \o catalogStr(tableName) \o "information_schema.key_column_usage col \n"
    \o "on tab.constraint_name = col.constraint_name\n"
    \o "where tab.constraint_type = 'primary key' \n"
    \o "and tab.table_name = @_table"
    \o (IF HasSchema(tableName) THEN "\nand tab.table_schema = @_schema" ELSE "")

\* the second query of #get.schema.primaryKey: declared key, then identity
\* columns (indentation not reproduced)
IdentityFallbackQuery(tableName) ==
  "select col.column_name as column_name,\n"
    \o "COLUMNPROPERTY(OBJECT_ID(col.TABLE_CATALOG +'.' +col.TABLE_SCHEMA +'.'+  col.TABLE_NAME), col.COLUMN_NAME, 'IsIdentity') AS isIdentity\n"
    \o "from " \o catalogStr(tableName) \o "information_schema.table_constraints tab\n"
    \o "inner join " \o catalogStr(tableName) \o "information_schema.key_column_usage col\n"
    \o "on tab.constraint_name = col.constraint_name\n"
    \o "where tab.constraint_type = 'primary key'\n"
    \o "and tab.table_name = @_table\n"
    \o (IF HasSchema(tableName) THEN "and tab.table_schema = @_schema" ELSE "")
    \o "\nunion all \n"
    \o "SELECT c.name AS column_name,c.is_identity AS isIdentity\n"
    \o "FROM " \o catalogStr(tableName) \o "sys.columns AS c\n"
    \o "JOIN " \o catalogStr(tableName) \o "sys.tables   AS t ON c.object_id = t.object_id\n"
    \o "JOIN " \o catalogStr(tableName) \o "sys.schemas  AS s ON t.schema_id  = s.schema_id\n"
    \o (IF HasSchema(tableName) THEN "AND s.name = @_schema" ELSE "")
    \o "\nWHERE t.name = @_table\n"
    \o "AND c.is_identity = 1\n"
    \o "union all \n"
    \o "SELECT c.name AS identity_column, null\n"
    \o "FROM " \o catalogStr(tableName) \o "sys.identity_columns c\n"
    \o "JOIN " \o catalogStr(tableName) \o "sys.tables t ON c.object_id = t.object_id\n"
    \o "JOIN " \o catalogStr(tableName) \o "sys.schemas s ON t.schema_id = s.schema_id\n"
    \o "WHERE t.name = @_table\n"
    \o (IF HasSchema(tableName) THEN "AND s.name = @_schema" ELSE "")

\* the query of #get.schema.columns (indentation not reproduced)
ColumnsQuery(tableName) ==
  "select column_name\n"
    \o "from " \o catalogStr(tableName) \o "INFORMATION_SCHEMA.columns\n"
    \o "where table_name = @_table"
    \o (IF HasSchema(tableName) THEN "\nand table_schema = @_schema" ELSE "")

\* the query of #get.schema.identityColumns (indentation not reproduced)
IdentityColumnsQuery(tableName) ==
  "\nSELECT\n"
    \o "c.name AS column_name,\n"
    \o "c.is_identity,\n"
    \o "CAST(ic.seed_value AS bigint) AS seed_value,\n"
    \o "CAST(ic.increment_value AS bigint) AS increment_value\n"
    \o "FROM " \o catalogStr(tableName) \o "sys.columns AS c\n"
    \o "JOIN " \o catalogStr(tableName) \o "sys.tables AS t ON c.object_id = t.object_id\n"
    \o "JOIN " \o catalogStr(tableName) \o "sys.schemas AS s ON t.schema_id = s.schema_id\n"
    \o "LEFT JOIN " \o catalogStr(tableName) \o "sys.identity_columns AS ic ON c.object_id = ic.object_id AND c.column_id = ic.column_id\n"
    \o "WHERE t.name = @_table\n"
    \o (IF HasSchema(tableName) THEN "AND s.name = @_schema" ELSE "")
    \o "\nAND c.is_identity = 1"

\* `${value}` inside a template literal
TemplateText(value) ==
  CASE value.k = "string" -> value.s
    [] value.k = "undefined" -> "undefined"
    [] value.k = "null" -> "null"
    [] OTHER -> ""

\* there is an element of the array of strings equal to name
ArrayIncludes(columns, name) == \E i \in 1..Len(columns.a) : columns.a[i] = Str(name)

\* #get.matchingColumns once the columns are known: [err, columns]
matchingColumns(tableName, parameters, columns, primaryKey) ==
  LET Matches(c) == HasKey(parameters, c.s) /\ c # primaryKey
      matched == SelectSeq(columns.a, Matches)
  IN IF Len(columns.a) = 0
     THEN [err |-> "No columns found for table " \o tableName, columns |-> <<>>]
     ELSE IF Len(matched) = 0
          THEN [err |-> "No columns in table " \o tableName
                          \o " have been matched for with parameters",
                columns |-> <<>>]
          ELSE [err |-> "", columns |-> matched]

\* #get.insert once the key and the columns are known: [err, qry]
getInsert(tableName, params, key, columns) ==
  LET primaryKey == Get(key, "primaryKey")
      isIdentity == Get(key, "isIdentity")
      m == matchingColumns(tableName, params, columns,
                           IF Truthy(isIdentity) THEN primaryKey ELSE Undefined)
      names == [i \in 1..Len(m.columns) |-> m.columns[i].s]
      columnsStr == Join([i \in 1..Len(names) |-> "@_" \o names[i]], ",")
  IN IF m.err # "" THEN [err |-> m.err, qry |-> ""]
     ELSE [err |-> "",
           qry |-> "\n      DECLARE @InsertedTable TABLE (" \o TemplateText(primaryKey)
                     \o " nvarchar(300));\n      insert into " \o tableName
                     \o " ([" \o Join(names, "],[") \o "]) \n"
                     \o (IF Truthy(primaryKey)
                         THEN "OUTPUT INSERTED." \o TemplateText(primaryKey)
                                \o " into @InsertedTable \n"
                         ELSE "")
                     \o "values (" \o columnsStr \o ")\n      select * from @InsertedTable"]

\* #get.update once the key and the columns are known: [err, qry]
getUpdate(tableName, params, key, columns) ==
  LET primaryKey == Get(key, "primaryKey")
      m == matchingColumns(tableName, params, columns, primaryKey)
      names == [i \in 1..Len(m.columns) |-> m.columns[i].s]
      columnsStr == Join([i \in 1..Len(names) |-> names[i] \o " = @_" \o names[i]], ",\n")
  IN IF m.err # "" THEN [err |-> m.err, qry |-> ""]
     ELSE [err |-> "",
           qry |-> "update " \o tableName \o " set\n      " \o columnsStr
                     \o "\n      where " \o TemplateText(primaryKey)
                     \o " = @_" \o TemplateText(primaryKey) \o " "]

\* the for loop of #get.delete over Object.entries(params): the where
\* clauses, or the error of the first defined field that is no column
DeleteClauses(tableName, params, columns) ==
  LET Defined(e) == isDefined(e.value)
      fields == SelectSeq(getKeys(params), Defined)
      Unknown(e) == ~ArrayIncludes(columns, e.key)
      unknown == SelectSeq(fields, Unknown)
  IN IF Len(unknown) > 0
     THEN [err |-> "Column '" \o unknown[1].key \o "' does not exist in table " \o tableName,
           clauses |-> <<>>]
     ELSE [err |-> "",
           clauses |-> [i \in 1..Len(fields) |-> fields[i].key \o " = @_" \o fields[i].key]]

\* mutant: the statement is built without the check for an empty filter set
getDelete_Unchecked(tableName, params, columns) ==
  LET w == DeleteClauses(tableName, params, columns) IN
  IF Len(columns.a) = 0 THEN [err |-> "No columns found for table " \o tableName, qry |-> ""]
  ELSE IF w.err # "" THEN [err |-> w.err, qry |-> ""]
  ELSE [err |-> "",
        qry |-> "delete from " \o tableName \o "\n      where " \o Join(w.clauses, " AND ")]

\* #get.delete once the columns are known: [err, qry]
getDelete(tableName, params, columns) ==
  LET w == DeleteClauses(tableName, params, columns) IN
  IF Len(columns.a) = 0 THEN [err |-> "No columns found for table " \o tableName, qry |-> ""]
  ELSE IF w.err # "" THEN [err |-> w.err, qry |-> ""]
  ELSE IF Len(w.clauses) = 0
       THEN [err |-> "No valid filter conditions provided for delete operation", qry |-> ""]
  ELSE [err |-> "",
        qry |-> "delete from " \o tableName \o "\n      where " \o Join(w.clauses, " AND ")]

(***************************************************************************)
(* State                                                                   *)
(***************************************************************************)

VARIABLES
  config,      \* this.config of the DB instance
  pool,        \* this.pool: 0 for null, else the number of the ConnectionPool in pools
  call,        \* the public operation in progress, with its arguments
  stack,       \* the chain of pending async calls, innermost last
  ret,         \* the settlement of the call that finished last
  sent,        \* history: statement texts handed to req.query by this operation
  attempts,    \* history: class of the driver's answer to each of them
  lastErr,     \* history: the error of the latest rejected execution
  lastResult,  \* history: the result of the latest resolved execution
  slept,       \* history: milliseconds spent in sleep() by this operation
  fallbacks,   \* history: what triggered each paging fallback of this operation
  fallbackRet, \* history: the settlement of the latest paging fallback
  rw,          \* the rewriter applied on its own: inputs and outputs
  STORAGE,     \* the module-level cache of keys and columns per table name
  validated,   \* history: the names validateTableName accepted in this operation
  completed,   \* history: the schema lookups that returned, as <<kind, table name>>
  pools,       \* the ConnectionPool objects created so far, by their state
  tasks,       \* concurrent #exec calls: where each is, its conPool and its pool
  handled      \* history: starts and settlements of the handler of for()

vars == <<config, pool, call, stack, ret, sent, attempts, lastErr, lastResult,
          slept, fallbacks, fallbackRet, rw, STORAGE, validated, completed, pools,
          tasks, handled>>

\* an error as the driver raises it
DriverError(number, message) == [number |-> number, message |-> message]

NoDriverError == DriverError(0, "")

NoRet == [kind |-> "none", value |-> Undefined, error |-> NoError]

Return(v) == [kind |-> "return", value |-> v, error |-> NoError]

Throw(e) == [kind |-> "throw", value |-> Undefined, error |-> e]

\* the table names the callers pass: a three-part name, a name with the
\* default schema, and a name of no table whose catalog part carries a
\* statement separator and a comment
TableNames ==
  {"appdb.dbo.users", "appdb..logs", "appdb;--.dbo.users"}

\* the table names passed where the key lookup is followed: a table with a
\* declared key, one with an identity column only, and a bare name of a
\* table without any key
KeyedTableNames == {"appdb.dbo.users", "appdb..logs", "tags"}

\* const STORAGE = { keys: {}, columns: {}, promises: {} }; an absent
\* property reads undefined
EmptyStorage ==
  [keys |-> [t \in TableNames \cup KeyedTableNames |-> Undefined],
   columns |-> [t \in TableNames \cup KeyedTableNames |-> Undefined]]

(***************************************************************************)
(* The constructor                                                         *)
(***************************************************************************)

TranHeader == "SET TRANSACTION ISOLATION LEVEL READ UNCOMMITTED"

\* { ...defaults, ...rest } with the connection parameters of the environment
RECURSIVE Spread(_, _)
Spread(target, entries) ==
  IF Len(entries) = 0 THEN target
  ELSE Spread(SetKey(target, Head(entries).key, Head(entries).value), Tail(entries))

\* this.config as the constructor leaves it for the argument _config
Constructor(_config) ==
  Spread(Obj(<<Entry("database", Str("appdb")),
               Entry("user", Str("app")),
               Entry("password", Str("secret")),
               Entry("server", Str("sqlhost"))>>),
         getKeys(_config))

\* the constructor arguments explored: none, and the rewriting flag set
ConfigArgs ==
  { Undefined,
    Obj(<<Entry("useOpenJson", Bool(TRUE))>>),
    Obj(<<Entry("useOpenJson", Bool(FALSE))>>) }

UseOpenJson == Truthy(Get(config, "useOpenJson"))

(***************************************************************************)
(* #exec as a chain of frames                                              *)
(***************************************************************************)

ExecFrame(originalQuery, params, options, retryCount) ==
  [fn |-> "exec", pc |-> "begin",
   originalQuery |-> originalQuery, params |-> params, options |-> options,
   retryCount |-> retryCount,
   opts |-> Undefined, query |-> "", req |-> <<>>, err |-> NoDriverError]

Top == stack[Len(stack)]

Running(fn, pc) == Len(stack) > 0 /\ Top.fn = fn /\ Top.pc = pc

\* replace the innermost frame
SetTop(f) == [stack EXCEPT ![Len(stack)] = f]

Pop == SubSeq(stack, 1, Len(stack) - 1)

\* the operation the caller started has settled
Done == Len(stack) = 0 /\ ret.kind # "none"

\* if (params?.limit && !params.page) params.page = 0
DefaultPage(params) ==
  IF Truthy(Get(params, "limit")) /\ ~Truthy(Get(params, "page"))
  THEN SetKey(params, "page", Num(0))
  ELSE params

\* #get.params: one req.input per key of the bag, under the name _key
getParams(params) ==
  LET pars == getKeys(params) IN [i \in 1..Len(pars) |-> "_" \o pars[i].key]

ApplyRowcount(opts, optionsOrBoolean) ==
  \/ Truthy(Get(opts, "rowcountOne"))
  \/ Get(opts, "result") = Str("first")
  \/ optionsOrBoolean = Bool(TRUE)

\* the text handed to req.query
SqlText(query, applyRowcount) ==
  TranHeader \o (IF applyRowcount THEN "\nSET ROWCOUNT 1;" ELSE "")
    \o "\n" \o query \o "\n"
    \o (IF applyRowcount THEN "SET ROWCOUNT 0;" ELSE "")

SuppressPaging(opts) ==
  Get(opts, "result") = Str("sets") \/ Get(opts, "applyPaging") = Str("never")

\* the options of the paging fallback: { ...opts, applyPaging, rowcountOne }
FallbackOptions(opts) ==
  SetKey(SetKey(opts, "applyPaging", Str("never")), "rowcountOne", Bool(TRUE))

(***************************************************************************)
(* The driver: what req.query may answer                                   *)
(***************************************************************************)

Row(entries) == Obj(entries)

DriverResult(recordsets) ==
  Obj(<<Entry("recordsets", Arr(recordsets)),
        Entry("recordset", IF Len(recordsets) > 0 THEN recordsets[1] ELSE Undefined),
        Entry("rowsAffected", Arr(<<Num(Len(recordsets))>>))>>)

\* the texts of string cells; JSONParse covers each of them
CellTexts == {"7", "null", "abc"}

DriverResults ==
  { DriverResult(<<>>),
    DriverResult(<<Arr(<<Row(<<Entry("id", Num(1)), Entry("name", Null)>>),
                         Row(<<Entry("id", Num(3)), Entry("name", Str("7"))>>)>>)>>),
    DriverResult(<<Arr(<<>>),
                   Arr(<<Row(<<Entry("note", Str("null")), Entry("tag", Str("abc"))>>)>>)>>) }

DeadlockError ==
  DriverError(1205, "Transaction (Process ID 55) was deadlocked on lock resources with another process and has been chosen as the deadlock victim.")

ConnectionLostError == DriverError(0, "Connection lost - unknown reason")

NextUsageError == DriverError(153, "Invalid usage of the option NEXT in the FETCH statement.")

ConstraintError == DriverError(2627, "Violation of PRIMARY KEY constraint 'PK_t'.")

DriverErrors == {DeadlockError, ConnectionLostError, NextUsageError, ConstraintError}

\* the class of a driver answer, as recorded in attempts
ErrorClass(err) ==
  IF IsTransient(err) THEN "transient"
  ELSE IF isNextUsageError(err) THEN "paging"
  ELSE "other"

(***************************************************************************)
(* The arguments of exec that are explored                                 *)
(***************************************************************************)

ExecStatements ==
  { "SELECT * FROM t WHERE id IN (@_ids)",
    "select * from t where id in (@_ids) order by id",
    "select * from t order by id offset 0 rows fetch next 5 rows only",
    "insert into t (id) values (@_id)" }

ExecBags ==
  { Undefined,
    Obj(<<Entry("ids", Arr(<<Num(1), Num(2), Num(3)>>))>>),
    Obj(<<Entry("ids", Arr(<<Num(1), Num(3)>>)), Entry("limit", Num(10))>>),
    Obj(<<Entry("id", Num(7)), Entry("limit", Num(0))>>) }

ExecOptionArgs ==
  { Undefined,
    Bool(TRUE),
    Obj(<<Entry("result", Str("sets"))>>),
    Obj(<<Entry("result", Str("meta")), Entry("parse", Bool(FALSE))>>),
    Obj(<<Entry("applyPaging", Str("never")), Entry("limit", Num(1))>>) }

IdleCall == [op |-> "none", query |-> "", tableName |-> "", params |-> Undefined,
             options |-> Undefined]

IdleRw == [step |-> 0, query |-> "", params |-> Undefined, suppressPaging |-> FALSE,
           out1 |-> [err |-> "", query |-> ""],
           out2 |-> [err |-> "", query |-> ""]]

\* the histories of one public operation, reset when it starts
FreshHistory ==
  /\ sent' = <<>>
  /\ attempts' = <<>>
  /\ lastErr' = NoDriverError
  /\ lastResult' = Undefined
  /\ slept' = 0
  /\ fallbacks' = <<>>
  /\ fallbackRet' = NoRet
  /\ handled' = <<>>

history == <<sent, attempts, lastErr, lastResult, slept, fallbacks, fallbackRet, handled>>

(***************************************************************************)
(* exec(query, params, optionsOrBoolean)                                   *)
(***************************************************************************)

\* the caller invokes exec; no other operation of the caller is pending
CallExec(query, params, options) ==
  /\ Len(stack) = 0
  /\ call' = [IdleCall EXCEPT !.op = "exec", !.query = query, !.params = params,
                              !.options = options]
  /\ stack' = <<ExecFrame(query, params, options, 0)>>
  /\ ret' = NoRet
  /\ FreshHistory
  /\ UNCHANGED <<config, STORAGE, validated, pool, rw, completed, pools, tasks>>

\* if (!this.pool) this.pool = await new sql.ConnectionPool(config).connect()
\* with no other call pending on the instance
ExecConnect ==
  /\ Running("exec", "begin")
  /\ pool = 0
  /\ pools' = Append(pools, "connected")
  /\ pool' = Len(pools) + 1
  /\ UNCHANGED <<config, STORAGE, validated, call, stack, ret, history, rw, completed, tasks>>

\* normalise the options, default the page, bind, rewrite, and hand the
\* text to req.query
ExecSend ==
  /\ Running("exec", "begin")
  /\ pool # 0
  /\ \E f \in {Top} :
     \E opts \in {normalizeExecOptions(f.options)}, params \in {DefaultPage(f.params)} :
     \E rewritten \in {getQuery(f.originalQuery, params, SuppressPaging(opts), UseOpenJson)} :
       IF rewritten.err # ""
       THEN /\ stack' = Pop
            /\ ret' = Throw(PlainError(rewritten.err))
            /\ sent' = sent
       ELSE /\ stack' = SetTop([f EXCEPT !.pc = "query", !.opts = opts, !.params = params,
                                         !.req = getParams(params),
                                         !.query = rewritten.query])
            /\ ret' = NoRet
            /\ sent' = Append(sent, SqlText(rewritten.query, ApplyRowcount(opts, f.options)))
  /\ UNCHANGED <<config, STORAGE, validated, pool, call, attempts, lastErr, lastResult, slept,
                 fallbacks, fallbackRet, rw, completed, pools, tasks, handled>>

\* req.query resolves: shape the result and return it
DriverResolve(result) ==
  /\ Running("exec", "query")
  /\ stack' = Pop
  /\ ret' = Return(ShapeResult(result, Top.opts))
  /\ attempts' = Append(attempts, "ok")
  /\ lastResult' = result
  /\ UNCHANGED <<config, STORAGE, validated, pool, call, sent, lastErr, slept, fallbacks, fallbackRet, rw, completed, pools, tasks, handled>>

\* req.query rejects: control enters the catch block
DriverReject(err) ==
  /\ Running("exec", "query")
  /\ stack' = SetTop([Top EXCEPT !.pc = "catch", !.err = err])
  /\ attempts' = Append(attempts, ErrorClass(err))
  /\ lastErr' = err
  /\ UNCHANGED <<config, STORAGE, validated, pool, call, ret, sent, lastResult, slept, fallbacks,
                 fallbackRet, rw, completed, pools, tasks, handled>>

\* transient error: sleep, then return this.#exec(query, params,
\* optionsOrBoolean, retryCount + 1); err is dead once the call is made
ExecRetry ==
  /\ Running("exec", "catch")
  /\ ShouldRetry(Top.err, Top.retryCount)
  /\ slept' = slept + RetryDelayMs
  /\ stack' = Append(SetTop([Top EXCEPT !.pc = "retry", !.err = NoDriverError]),
                     ExecFrame(Top.query, Top.params, Top.options, Top.retryCount + 1))
  /\ UNCHANGED <<config, STORAGE, validated, pool, call, ret, sent, attempts, lastErr, lastResult,
                 fallbacks, fallbackRet, rw, completed, pools, tasks, handled>>

\* the retry settled: the frame settles the same way
ExecRetryDone ==
  /\ Running("exec", "retry")
  /\ ret.kind # "none"
  /\ stack' = Pop
  /\ UNCHANGED <<config, STORAGE, validated, pool, call, ret, history, rw, completed, pools, tasks>>

\* the statement had FETCH NEXT, or the error is the NEXT usage error:
\* await this.#exec(originalQuery, params, {...}, retryCount + 1)
ExecFallback ==
  /\ Running("exec", "catch")
  /\ ~ShouldRetry(Top.err, Top.retryCount)
  /\ ShouldFallback(Top.err, Top.query, Top.retryCount)
  /\ fallbacks' = Append(fallbacks, [err |-> Top.err, query |-> Top.query,
                                     retryCount |-> Top.retryCount])
  /\ stack' = Append(SetTop([Top EXCEPT !.pc = "fallback"]),
                     ExecFrame(Top.originalQuery, Top.params, FallbackOptions(Top.opts),
                               Top.retryCount + 1))
  /\ UNCHANGED <<config, STORAGE, validated, pool, call, ret, sent, attempts, lastErr, lastResult,
                 slept, fallbackRet, rw, completed, pools, tasks, handled>>

\* the fallback settled: its error propagates, its result is dropped and
\* the error record of the first failure is thrown
ExecFallbackDone ==
  /\ Running("exec", "fallback")
  /\ ret.kind # "none"
  /\ stack' = Pop
  /\ fallbackRet' = ret
  /\ ret' = IF ret.kind = "throw" THEN ret
            ELSE Throw(parseMSSQLError(Top.err, Top.query, Top.params, config))
  /\ UNCHANGED <<config, STORAGE, validated, pool, call, sent, attempts, lastErr, lastResult, slept,
                 fallbacks, rw, completed, pools, tasks, handled>>

\* any other error: throw the error record
ExecThrow ==
  /\ Running("exec", "catch")
  /\ ~ShouldRetry(Top.err, Top.retryCount)
  /\ ~ShouldFallback(Top.err, Top.query, Top.retryCount)
  /\ stack' = Pop
  /\ ret' = Throw(parseMSSQLError(Top.err, Top.query, Top.params, config))
  /\ UNCHANGED <<config, STORAGE, validated, pool, call, history, rw, completed, pools, tasks>>

InitExec ==
  /\ \E arg \in ConfigArgs : config = Constructor(arg)
  /\ pool = 0
  /\ call = IdleCall
  /\ stack = <<>>
  /\ ret = NoRet
  /\ sent = <<>>
  /\ attempts = <<>>
  /\ lastErr = NoDriverError
  /\ lastResult = Undefined
  /\ slept = 0
  /\ fallbacks = <<>>
  /\ fallbackRet = NoRet
  /\ rw = IdleRw
  /\ STORAGE = EmptyStorage
  /\ validated = {}
  /\ completed = {}
  /\ pools = <<>>
  /\ tasks = <<>>
  /\ handled = <<>>

ExecSteps ==
  \/ ExecConnect
  \/ ExecSend
  \/ \E result \in DriverResults : DriverResolve(result)
  \/ \E err \in DriverErrors : DriverReject(err)
  \/ ExecRetry
  \/ ExecRetryDone
  \/ ExecFallback
  \/ ExecFallbackDone
  \/ ExecThrow

NextExec ==
  \/ \E query \in ExecStatements, params \in ExecBags, options \in ExecOptionArgs :
       CallExec(query, params, options)
  \/ ExecSteps

SpecExec == InitExec /\ [][NextExec]_vars

(***************************************************************************)
(* Properties of exec                                                      *)
(***************************************************************************)

AllTransient == \A i \in 1..Len(attempts) : attempts[i] = "transient"

TransientThenOk ==
  /\ Len(attempts) >= 1
  /\ attempts[Len(attempts)] = "ok"
  /\ \A i \in 1..(Len(attempts) - 1) : attempts[i] = "transient"

\* C4: while every execution of an exec call fails with a transient error
\* the statement is executed at most 6 times, each re-attempt after a sleep
\* of 450 ms; after the 6th failure exec throws the error record of that
\* last failure; when an attempt succeeds after transient failures only,
\* exec returns the shaped result of that attempt.
C4_TransientRetryBounded ==
  /\ (call.op = "exec" /\ AllTransient) =>
        /\ Len(attempts) <= 6
        /\ Len(sent) <= 6
        /\ slept \in {450 * (Len(sent) - 1), 450 * Len(sent)}
  /\ (call.op = "exec" /\ Done /\ AllTransient) =>
        /\ Len(attempts) = 6
        /\ slept = 450 * 5
        /\ ret.kind = "throw"
        /\ ret.error.name = "DBError"
        /\ ret.error.number = lastErr.number
        /\ ret.error.message = lastErr.message
  /\ (call.op = "exec" /\ Done /\ TransientThenOk) =>
        /\ slept = 450 * (Len(attempts) - 1)
        /\ ret = Return(ShapeResult(lastResult, normalizeExecOptions(call.options)))

\* an exec call gave up after six transient failures
C4_Witness ==
  /\ call.op = "exec" /\ Done /\ AllTransient
  /\ Len(attempts) = 6 /\ lastErr = DeadlockError /\ ret.kind = "throw"

\* the first execution carried the injected paging clause, was rejected as
\* a NEXT usage error, and the fallback execution succeeded
PagingRejectedFallbackOk ==
  /\ call.op = "exec" /\ Done
  /\ Len(fallbacks) = 1
  /\ isNextUsageError(fallbacks[1].err)
  /\ Includes(fallbacks[1].query, PagingClause)
  /\ ~Includes(call.query, PagingClause)
  /\ fallbackRet.kind = "return"

\* C5: when the statement with the injected paging clause is rejected and
\* the single fallback execution succeeds, exec returns the fallback's
\* result instead of throwing the original error.
C5_FallbackResultReturned == PagingRejectedFallbackOk => ret = fallbackRet

\* C6 as stated: the fallback runs only for the paging-clause rejection and
\* at most once; any other terminal error is thrown after one execution.
C6_FallbackOnlyOnPagingRejection ==
  /\ Len(fallbacks) <= 1
  /\ \A i \in 1..Len(fallbacks) : isNextUsageError(fallbacks[i].err)
  /\ (call.op = "exec" /\ Done /\ Len(attempts) >= 1 /\ attempts[1] = "other") =>
        Len(sent) = 1

\* C6 amended: the fallback runs at most once per exec call and only from
\* the call's first execution, on a non-transient error, when the rewritten
\* statement contains FETCH NEXT (whatever the error) or the error is the
\* paging-clause rejection; a non-transient error that is no paging
\* rejection, on a statement without FETCH NEXT, is thrown after that one
\* execution.
C6_FallbackAtMostOnce ==
  /\ Len(fallbacks) <= 1
  /\ \A i \in 1..Len(fallbacks) :
       /\ fallbacks[i].retryCount = 0
       /\ ~IsTransient(fallbacks[i].err)
       /\ \/ hadFetchNext(fallbacks[i].query)
          \/ fallbacks[i].err.number = 153
          \/ Includes(fallbacks[i].err.message, "usage of the option NEXT")
  /\ (call.op = "exec" /\ Done /\ Len(attempts) >= 1 /\ attempts[1] = "other"
        /\ ~hadFetchNext(sent[1])) =>
        /\ Len(sent) = 1
        /\ ret.kind = "throw"
        /\ ret.error.number = lastErr.number

\* a constraint violation on a statement with FETCH NEXT ran the fallback
C6_Witness ==
  /\ call.op = "exec" /\ Done
  /\ Len(fallbacks) = 1
  /\ fallbacks[1].err = ConstraintError
  /\ Len(sent) = 2

\* C7: on an instance built with the default configuration, exec of a
\* statement with IN (@_ids) and an array-valued ids sends the driver the
\* statement with the reference expanded to the openjson sub-query.
C7_DefaultConfigExpandsMembership ==
  (/\ config = Constructor(Undefined)
   /\ call.op = "exec"
   /\ \E i \in 1..Len(extractOpenJson(call.query)) : extractOpenJson(call.query)[i] = "ids"
   /\ IsArray(Get(call.params, "ids")))
  => \A i \in 1..Len(sent) :
       IncludesLower(sent[i], "in (select value from openjson(@_ids))")

\* the result mode an exec call asks for: true is the legacy form of
\* 'first', and 'rows' is the default
RequestedMode(options) ==
  IF options = Bool(TRUE) THEN "first"
  ELSE IF TypeOf(options) = "object" /\ Get(options, "result").k = "string"
       THEN Get(options, "result").s
       ELSE "rows"

\* rows are shaped unless the call passes parse: false
RequestsParse(options) ==
  ~(TypeOf(options) = "object" /\ Get(options, "parse") = Bool(FALSE))

RequestsLimitOne(options) ==
  TypeOf(options) = "object" /\ Get(options, "limit") = Num(1)

\* one result set with each of its rows shaped
ShapedSet(rows, parse) ==
  IF parse THEN Arr([i \in 1..Len(rows.a) |-> coerceRow(rows.a[i])]) ELSE rows

\* the first result set of a driver result, empty when there is none
FirstSet(result) ==
  IF Len(Get(result, "recordsets").a) > 0 THEN Get(result, "recordsets").a[1] ELSE Arr(<<>>)

\* the first row of a result set, undefined when it has no row
FirstRowOf(rows) == IF Len(rows.a) > 0 THEN rows.a[1] ELSE Undefined

\* an exec call has returned a value
ExecReturned == call.op = "exec" /\ Done /\ ret.kind = "return"

\* C18 as stated: exec returns, in mode 'first' (or for true), the first
\* shaped row of the first result set or undefined; in mode 'rows' (the
\* default) always the array of all shaped rows of the first result set;
\* in mode 'sets' one shaped array per result set.
C18_ResultShapedByMode ==
  ExecReturned =>
    LET mode == RequestedMode(call.options)
        parse == RequestsParse(call.options)
        sets == Get(lastResult, "recordsets").a
    IN /\ mode = "first" =>
            ret.value = FirstRowOf(ShapedSet(FirstSet(lastResult), parse))
       /\ mode = "rows" =>
            ret.value = ShapedSet(FirstSet(lastResult), parse)
       /\ mode = "sets" =>
            ret.value = Arr([j \in 1..Len(sets) |-> ShapedSet(sets[j], parse)])

\* C18 amended: as stated, except that mode 'rows' returns the array of
\* all shaped rows only when the option limit is not 1; with limit 1 it
\* returns what mode 'first' returns, the first shaped row or undefined.
C18_ResultShapedByModeAndLimit ==
  ExecReturned =>
    LET mode == RequestedMode(call.options)
        parse == RequestsParse(call.options)
        sets == Get(lastResult, "recordsets").a
    IN /\ (mode = "first" \/ (mode = "rows" /\ RequestsLimitOne(call.options))) =>
            ret.value = FirstRowOf(ShapedSet(FirstSet(lastResult), parse))
       /\ (mode = "rows" /\ ~RequestsLimitOne(call.options)) =>
            ret.value = ShapedSet(FirstSet(lastResult), parse)
       /\ mode = "sets" =>
            ret.value = Arr([j \in 1..Len(sets) |-> ShapedSet(sets[j], parse)])

\* an exec call in the default mode with limit 1 got two rows from the
\* driver and returned the first of them, shaped, instead of an array
C18_Witness ==
  /\ ExecReturned
  /\ RequestedMode(call.options) = "rows"
  /\ RequestsLimitOne(call.options)
  /\ Len(FirstSet(lastResult).a) = 2
  /\ ret.value = coerceRow(FirstSet(lastResult).a[1])
  /\ ~IsArray(ret.value)

\* the rows of a result set, none when it is no array
RowsOf(rows) == IF IsArray(rows) THEN rows.a ELSE <<>>

\* the rows an exec call returned, each with the row of the driver it was
\* made of
ReturnedRows ==
  LET mode == RequestedMode(call.options)
      sets == Get(lastResult, "recordsets").a
      PairsOf(shaped, raw) ==
        { <<RowsOf(shaped)[i], RowsOf(raw)[i]>> :
            i \in 1..(IF Len(RowsOf(shaped)) = Len(RowsOf(raw)) THEN Len(RowsOf(raw)) ELSE 0) }
  IN CASE mode = "meta" ->
            UNION { PairsOf(Get(ret.value, "recordsets").a[j], sets[j]) : j \in 1..Len(sets) }
       [] mode = "sets" ->
            UNION { PairsOf(ret.value.a[j], sets[j]) : j \in 1..Len(sets) }
       [] mode = "first" \/ RequestsLimitOne(call.options) ->
            IF Len(FirstSet(lastResult).a) > 0
            THEN { <<ret.value, FirstSet(lastResult).a[1]>> }
            ELSE {}
       [] OTHER -> PairsOf(ret.value, FirstSet(lastResult))

BoundedStatements ==
  { "select * from t where id in (@_ids) order by id",
    "select * from t order by id offset 0 rows fetch next 5 rows only",
    "insert into t (id) values (@_id)" }

BoundedBags ==
  { Obj(<<Entry("ids", Arr(<<Num(1), Num(3)>>)), Entry("limit", Num(10))>>) }

NextExecFair ==
  \/ \E query \in BoundedStatements, params \in BoundedBags :
       CallExec(query, params, Undefined)
  \/ ExecSteps

\* an instance constructed without arguments
InitExecFair == InitExec /\ config = Constructor(Undefined)

\* an await of #exec that can resume does resume: the driver settles every
\* request and the sleep ends
SpecExecFair == InitExecFair /\ [][NextExecFair]_vars /\ WF_vars(ExecSteps)

\* C25: whatever the driver answers, one exec call executes at most 6
\* statements in all (the transient retries and the paging fallback count
\* on one attempt counter), and it ends by returning or by throwing.
C25_ExecBoundedAndTerminates ==
  /\ [](call.op = "exec" => (Len(sent) <= 6 /\ Len(attempts) <= 6 /\ Len(stack) <= 6))
  /\ ((call.op = "exec" /\ ~Done) ~> Done)

\* an exec call ended after six executions, of which the first was
\* rejected and followed by the fallback, and the fallback was retried
C25_Witness ==
  /\ call.op = "exec" /\ Done
  /\ Len(fallbacks) = 1
  /\ Len(sent) = 6 /\ Len(attempts) = 6
  /\ attempts[1] # "transient" /\ attempts[2] = "transient"

(***************************************************************************)
(* The rewriter on its own: #get.query applied to a statement and a bag,   *)
(* and applied again to its own output as a transient retry does           *)
(***************************************************************************)

StatementHeads ==
  { "select * from t",
    "select top 5 * from t",
    "SELECT TOP(5) * FROM t",
    "select stop from t" }

StatementWheres ==
  { "",
    " where id in (@_ids)",
    " WHERE id IN ( @_ids )",
    " where id in (@_id)",
    " where grp = @_idsX and id in (@_ids)",
    " where a in (@_ids) or b in (@_ids)",
    " join openjson(@_rows) r on r.id = t.id" }

StatementTails ==
  { "",
    " order by id",
    " ORDER BY id",
    " order by id offset 0 rows Fetch Next 5 rows only" }

RewriteStatements ==
  { h \o w \o t : h \in StatementHeads, w \in StatementWheres, t \in StatementTails }

RewriteBags ==
  { Undefined,
    Obj(<<Entry("ids", Arr(<<Num(1), Num(2), Num(3)>>))>>),
    Obj(<<Entry("ids", Arr(<<Num(1), Num(2)>>)), Entry("limit", Num(10)), Entry("page", Num(2))>>),
    Obj(<<Entry("ids", Num(5)), Entry("id", Num(7)), Entry("limit", Str("10"))>>),
    Obj(<<Entry("idsX", Num(2)), Entry("ids", Arr(<<Num(1)>>)), Entry("limit", Num(0))>>),
    Obj(<<Entry("limit", NaN), Entry("id", Arr(<<Num(4)>>))>>),
    Obj(<<Entry("rows", Arr(<<Obj(<<Entry("id", Num(1)), Entry("name", Str("a"))>>)>>)),
          Entry("limit", Num(10))>>),
    Obj(<<Entry("rows", Arr(<<>>)), Entry("ids", Null)>>) }

InitRewrite ==
  /\ \E arg \in ConfigArgs : config = Constructor(arg)
  /\ pool = 0
  /\ call = IdleCall
  /\ stack = <<>>
  /\ ret = NoRet
  /\ sent = <<>>
  /\ attempts = <<>>
  /\ lastErr = NoDriverError
  /\ lastResult = Undefined
  /\ slept = 0
  /\ fallbacks = <<>>
  /\ fallbackRet = NoRet
  /\ \E query \in RewriteStatements, params \in RewriteBags, suppressPaging \in BOOLEAN :
       rw = [IdleRw EXCEPT !.query = query, !.params = params,
                           !.suppressPaging = suppressPaging]
  /\ STORAGE = EmptyStorage
  /\ validated = {}
  /\ completed = {}
  /\ pools = <<>>
  /\ tasks = <<>>
  /\ handled = <<>>

\* this.#get.query(query, params, suppressPaging)
Rewrite ==
  /\ rw.step = 0
  /\ rw' = [rw EXCEPT !.step = 1,
                      !.out1 = getQuery(rw.query, rw.params, rw.suppressPaging, UseOpenJson)]
  /\ UNCHANGED <<config, STORAGE, validated, pool, call, stack, ret, history, completed, pools, tasks>>

\* this.#get.query applied to the text the first application returned
RewriteAgain ==
  /\ rw.step = 1
  /\ rw.out1.err = ""
  /\ rw' = [rw EXCEPT !.step = 2,
                      !.out2 = getQuery(rw.out1.query, rw.params, rw.suppressPaging,
                                        UseOpenJson)]
  /\ UNCHANGED <<config, STORAGE, validated, pool, call, stack, ret, history, completed, pools, tasks>>

NextRewrite == Rewrite \/ RewriteAgain

SpecRewrite == InitRewrite /\ [][NextRewrite]_vars

(***************************************************************************)
(* Properties of the rewriter                                              *)
(***************************************************************************)

\* how often name occurs in a sequence of names
CountName(names, name) == Cardinality({i \in 1..Len(names) : names[i] = name})

\* how often pat occurs in s
CountOccurrences(s, pat) == Cardinality({i \in 1..Len(s) : MatchAt(s, i, pat)})

\* C8: with the flag enabled, for every name that appears as IN ( @_name ):
\* if the bag holds an array under it every such parenthesized reference is
\* replaced by the openjson sub-query, and if it holds a scalar or nothing
\* the references stay as they are.
C8_MembershipExpanded ==
  (rw.step >= 1 /\ UseOpenJson /\ rw.out1.err = "") =>
    LET names == extractOpenJson(rw.query)
        left == extractOpenJson(rw.out1.query)
    IN \A i \in 1..Len(names) :
         LET subquery == "select value from openjson(@_" \o names[i] \o ")" IN
         IF IsArray(Get(rw.params, names[i]))
         THEN /\ CountName(left, names[i]) = 0
              /\ CountOccurrences(rw.out1.query, subquery) = CountName(names, names[i])
         ELSE /\ CountName(left, names[i]) = CountName(names, names[i])
              /\ CountOccurrences(rw.out1.query, subquery) = 0

\* the text of s from position i on in which the parameter reference of
\* each matched IN ( @_name ), and nothing else, is replaced by the
\* sub-query when the bag holds an array under the name
RECURSIVE ExpandedInPlace(_, _, _)
ExpandedInPlace(s, i, params) ==
  LET hits == { j \in i..Len(s) : InClauseAt(s, j).end # 0 } IN
  IF hits = {} THEN SubSeq(s, i, Len(s))
  ELSE LET first == CHOOSE j \in hits : \A k \in hits : j <= k
           m == InClauseAt(s, first)
           matched == SubSeq(s, first, m.end - 1)
           at == IndexOf(matched, "@_")
           expanded == SubSeq(matched, 1, at - 1)
                         \o "select value from openjson(@_" \o m.name \o ")"
                         \o SubSeq(matched, at + 2 + Len(m.name), Len(matched))
       IN SubSeq(s, i, first - 1)
            \o (IF IsArray(Get(params, m.name)) THEN expanded ELSE matched)
            \o ExpandedInPlace(s, m.end, params)

\* no value of the bag is an array of objects, for which the rewriter would
\* add a shape clause
NoObjectArrays(params) ==
  \A k \in 1..Len(getKeys(params)) :
    ~(IsArray(getKeys(params)[k].value)
        /\ TypeOf(Index0(getKeys(params)[k].value)) = "object"
        /\ Truthy(Index0(getKeys(params)[k].value)))

\* C24: membership expansion rewrites exactly the parameter reference
\* inside each matched IN ( @_name ): also when the parameter, or one whose
\* name starts with the same characters, is referenced elsewhere, or when
\* it stands in two IN clauses, every IN occurrence is rewritten once and
\* the rest of the text stays as it was (but for the paging clause that may
\* be appended).
C24_MembershipExpandedInPlace ==
  (rw.step >= 1 /\ UseOpenJson /\ rw.out1.err = "" /\ NoObjectArrays(rw.params)) =>
    rw.out1.query \in { ExpandedInPlace(rw.query, 1, rw.params),
                        ExpandedInPlace(rw.query, 1, rw.params) \o PagingClause }

\* the first application appended the paging clause
PagingAppended == rw.step >= 1 /\ rw.out1.query = rw.query \o PagingClause

\* the statement uses a TOP clause
UsesTopClause(query) ==
  IncludesLower(query, "select top ") \/ IncludesLower(query, "select top(")

\* C9: the paging clause is appended only when paging is not suppressed,
\* the bag's limit is a number and the statement contains an ORDER BY, and
\* never to a statement that contains "fetch next" in any letter case or
\* that uses a TOP clause.
C9_PagingOnlyWhenAllowed ==
  /\ PagingAppended =>
       /\ ~rw.suppressPaging
       /\ Get(rw.params, "limit").k \in {"number", "float"}
       /\ IncludesLower(rw.query, "order by")
       /\ ~IncludesLower(rw.query, "fetch next")
       /\ ~UsesTopClause(rw.query)
  /\ (rw.step >= 1 /\ rw.out1.err = ""
        /\ (IncludesLower(rw.query, "fetch next") \/ UsesTopClause(rw.query))) =>
       CountOccurrences(rw.out1.query, PagingClause) = 0

\* the clause was appended for limit 10 to a statement with an ORDER BY
C9_Witness ==
  /\ PagingAppended
  /\ Get(rw.params, "limit") = Num(10)
  /\ Includes(rw.query, "ORDER BY")

\* C10: the rewrite is idempotent: applied to its own output with the same
\* bag it returns that output unchanged.
C10_RewriteIdempotent == rw.step = 2 => rw.out2 = rw.out1

\* the statement references OPENJSON(@_name) with no WITH clause after it
\* and the bag holds an empty array under name
EmptyArrayReferenced(query, params) ==
  \E i \in 1..Len(extractOpenJsonObjects(query)) :
    Get(params, extractOpenJsonObjects(query)[i]) = Arr(<<>>)

\* C11: with the flag enabled, rewriting a statement that references
\* OPENJSON(@_name) without a following WITH clause, where the bag holds an
\* empty array under name, throws instead of returning a statement.
C11_EmptyArrayExpansionThrows ==
  (rw.step >= 1 /\ UseOpenJson /\ EmptyArrayReferenced(rw.query, rw.params)) =>
     rw.out1.err # ""


(***************************************************************************)
(* The database behind the driver, as far as the introspection queries     *)
(* of #get.schema read it                                                  *)
(***************************************************************************)

DbTable(catalog, schema, table, columns, primaryKey, identity) ==
  [catalog |-> catalog, schema |-> schema, table |-> table, columns |-> columns,
   primaryKey |-> primaryKey, identity |-> identity]

\* users has a declared identity key, logs an identity column and no
\* declared key, tags neither; "" is none
DbTables ==
  { DbTable("appdb", "dbo", "users", <<"id", "name", "status">>, "id", "id"),
    DbTable("appdb", "dbo", "logs", <<"id", "name">>, "", "id"),
    DbTable("appdb", "dbo", "tags", <<"name">>, "", "") }

\* the text handed to req.query last
LastSent == sent[Len(sent)]

IsColumnsQuery(text) == Includes(text, "INFORMATION_SCHEMA.columns")

IsIdentityFallbackQuery(text) == Includes(text, "sys.identity_columns c\n")

IsIdentityColumnsQuery(text) == Includes(text, "sys.identity_columns AS ic")

IsIntrospection(text) ==
  \/ IsColumnsQuery(text)
  \/ Includes(text, "information_schema.table_constraints")
  \/ IsIdentityColumnsQuery(text)

\* the text reads the catalog c: by its prefix, or without a prefix when c
\* is the database of the connection
ReadsCatalog(text, c) ==
  \/ Includes(text, "from " \o c \o ".information_schema.")
  \/ Includes(text, "from " \o c \o ".INFORMATION_SCHEMA.")
  \/ Includes(text, "FROM " \o c \o ".sys.")
  \/ /\ Str(c) = Get(config, "database")
     /\ \/ Includes(text, "from information_schema.")
        \/ Includes(text, "from INFORMATION_SCHEMA.")
        \/ Includes(text, "FROM sys.")

\* the tables the text and its bound @_table and @_schema select
SelectedTables(text, params) ==
  { t \in DbTables :
      /\ Str(t.table) = Get(params, "table")
      /\ Truthy(Get(params, "schema")) => Str(t.schema) = Get(params, "schema")
      /\ ReadsCatalog(text, t.catalog) }

\* the rows an introspection query selects of the table t
TableRows(text, t) ==
  LET keyRows == IF t.primaryKey = "" THEN <<>>
                 ELSE <<Row(<<Entry("column_name", Str(t.primaryKey)),
                              Entry("isIdentity",
                                    IF t.identity = t.primaryKey THEN Num(1) ELSE Num(0))>>)>>
      identityRows == IF t.identity = "" THEN <<>>
                      ELSE <<Row(<<Entry("column_name", Str(t.identity)),
                                   Entry("isIdentity", Bool(TRUE))>>),
                             Row(<<Entry("column_name", Str(t.identity)),
                                   Entry("isIdentity", Null)>>)>>
  IN IF IsColumnsQuery(text)
     THEN [i \in 1..Len(t.columns) |-> Row(<<Entry("column_name", Str(t.columns[i]))>>)]
     ELSE IF IsIdentityFallbackQuery(text) THEN keyRows \o identityRows
     ELSE IF IsIdentityColumnsQuery(text)
          THEN IF t.identity = "" THEN <<>>
               ELSE <<Row(<<Entry("column_name", Str(t.identity)),
                            Entry("is_identity", Bool(TRUE)),
                            Entry("seed_value", Str("1")),
                            Entry("increment_value", Str("1"))>>)>>
     ELSE keyRows

\* SET ROWCOUNT 1 cuts every recordset of the batch to one row
RowcountCut(text, rows) ==
  IF Len(rows) > 1 /\ Includes(text, "SET ROWCOUNT 1;") THEN <<rows[1]>> ELSE rows

\* the recordsets an introspection query may yield: one, holding the rows
\* of a table it selects, or no row when it selects no table
IntrospectionResults(text, params) ==
  { DriverResult(<<Arr(RowcountCut(text, rows))>>) :
      rows \in UNION { IF found = {} THEN {<<>>}
                       ELSE { TableRows(text, t) : t \in found } :
                       found \in { SelectedTables(text, params) } } }

\* what req.query may resolve to for the text sent last: the content of
\* the database for an introspection query, anything for another statement
EngineResults ==
  IF ~Running("exec", "query") THEN {}
  ELSE IF IsIntrospection(LastSent) THEN IntrospectionResults(LastSent, Top.params)
  ELSE DriverResults

(***************************************************************************)
(* insert, update, delete, print.* and get.identityColumn                  *)
(***************************************************************************)

TableOps ==
  {"insert", "update", "delete", "print.insert", "print.update", "print.delete",
   "get.identityColumn"}

\* the statement kind #get synthesises for the operation
Statement(fn) ==
  CASE fn \in {"insert", "print.insert"} -> "insert"
    [] fn \in {"update", "print.update"} -> "update"
    [] fn \in {"delete", "print.delete"} -> "delete"
    [] OTHER -> "none"

\* the parameter bags the callers pass
TableBags ==
  { Obj(<<>>),
    Obj(<<Entry("status", Undefined), Entry("nope", Null)>>),
    Obj(<<Entry("id", Num(0)), Entry("name", Str("x"))>>) }

\* a pending call of a table operation; key and columns are the locals
\* that hold what #get.schema returned
TableFrame(fn, tableName, params) ==
  [fn |-> fn,
   pc |-> CASE fn \in {"insert", "update", "delete"} -> "validate"
            [] fn \in {"print.insert", "print.update"} -> "primaryKey"
            [] fn = "print.delete" -> "columns"
            [] OTHER -> "identityColumns",
   tableName |-> tableName, params |-> params,
   key |-> Undefined, columns |-> Undefined]

\* the innermost frame is a table operation at pc
AtTable(pc) == Len(stack) > 0 /\ Top.fn \in TableOps /\ Top.pc = pc

\* the caller invokes a table operation; no other operation is pending
CallTable(fn, tableName, params) ==
  /\ Len(stack) = 0
  /\ call' = [IdleCall EXCEPT !.op = fn, !.tableName = tableName, !.params = params]
  /\ stack' = <<TableFrame(fn, tableName, params)>>
  /\ ret' = NoRet
  /\ FreshHistory
  /\ validated' = {}
  /\ UNCHANGED <<config, pool, rw, STORAGE, completed, pools, tasks>>

\* validateTableName(tableName), the first line of insert, update, delete
TableValidate ==
  /\ AtTable("validate")
  /\ LET err == validateTableName(Top.tableName) IN
     IF err # ""
     THEN /\ stack' = Pop
          /\ ret' = Throw(PlainError(err))
          /\ validated' = validated
     ELSE /\ stack' = SetTop([Top EXCEPT !.pc = IF Top.fn = "delete" THEN "columns"
                                                ELSE "primaryKey"])
          /\ ret' = NoRet
          /\ validated' = validated \cup {Top.tableName}
  /\ UNCHANGED <<config, pool, call, history, rw, STORAGE, completed, pools, tasks>>

\* mutant: an entry counts as cached only when it names a primary key
IsCached_WhenFound(storage) == Truthy(Get(storage, "primaryKey")) \/ IsArray(storage)

\* if (storage): the entry of STORAGE.keys or STORAGE.columns is there
IsCached(storage) == Truthy(storage)

\* #get.schema.primaryKey: if (storage) return storage
PrimaryKeyCached ==
  /\ AtTable("primaryKey")
  /\ IsCached(STORAGE.keys[Top.tableName])
  /\ stack' = SetTop([Top EXCEPT !.pc = "matching", !.key = STORAGE.keys[Top.tableName]])
  /\ completed' = completed \cup {<<"primaryKey", Top.tableName>>}
  /\ UNCHANGED <<config, pool, call, ret, history, rw, STORAGE, validated, pools, tasks>>

\* #get.schema.primaryKey: await this.exec(qry, { table, schema }, true)
PrimaryKeyLookup ==
  /\ AtTable("primaryKey")
  /\ ~IsCached(STORAGE.keys[Top.tableName])
  /\ stack' = Append(SetTop([Top EXCEPT !.pc = "primaryKey1"]),
                     ExecFrame(PrimaryKeyQuery(Top.tableName), SchemaBag(Top.tableName),
                               Bool(TRUE), 0))
  /\ ret' = NoRet
  /\ UNCHANGED <<config, pool, call, history, rw, STORAGE, validated, completed, pools, tasks>>

\* the entry { primaryKey, isIdentity } of STORAGE.keys
KeyEntry(primaryKey, isIdentity) ==
  Obj(<<Entry("primaryKey", primaryKey), Entry("isIdentity", isIdentity)>>)

\* res = (await ...) || {}
OrEmpty(value) == IF Truthy(value) THEN value ELSE Obj(<<>>)

\* the first query settled: keep the declared key, or ask for an identity
\* column with this.#exec(qry, { table, schema }, true)
PrimaryKeyDeclared ==
  /\ AtTable("primaryKey1")
  /\ ret.kind # "none"
  /\ LET res == OrEmpty(ret.value)
         entry == KeyEntry(Get(res, "column_name"), Get(res, "isIdentity"))
     IN IF ret.kind = "throw"
        THEN /\ stack' = Pop
             /\ ret' = ret
             /\ STORAGE' = STORAGE
             /\ completed' = completed
        ELSE IF ~Truthy(Get(res, "column_name"))
        THEN /\ stack' = Append(SetTop([Top EXCEPT !.pc = "primaryKey2", !.key = entry]),
                                ExecFrame(IdentityFallbackQuery(Top.tableName),
                                          SchemaBag(Top.tableName), Bool(TRUE), 0))
             /\ ret' = NoRet
             /\ STORAGE' = STORAGE
             /\ completed' = completed
        ELSE /\ stack' = SetTop([Top EXCEPT !.pc = "matching", !.key = entry])
             /\ ret' = NoRet
             /\ STORAGE' = [STORAGE EXCEPT !.keys[Top.tableName] = entry]
             /\ completed' = completed \cup {<<"primaryKey", Top.tableName>>}
  /\ UNCHANGED <<config, pool, call, history, rw, validated, pools, tasks>>

\* the second query settled: primaryKey = colRes.column_name, isIdentity
\* is still that of the first query
PrimaryKeyIdentity ==
  /\ AtTable("primaryKey2")
  /\ ret.kind # "none"
  /\ LET colRes == OrEmpty(ret.value)
         entry == KeyEntry(Get(colRes, "column_name"), Get(Top.key, "isIdentity"))
     IN IF ret.kind = "throw"
        THEN /\ stack' = Pop
             /\ ret' = ret
             /\ STORAGE' = STORAGE
             /\ completed' = completed
        ELSE /\ stack' = SetTop([Top EXCEPT !.pc = "matching", !.key = entry])
             /\ ret' = NoRet
             /\ STORAGE' = [STORAGE EXCEPT !.keys[Top.tableName] = entry]
             /\ completed' = completed \cup {<<"primaryKey", Top.tableName>>}
  /\ UNCHANGED <<config, pool, call, history, rw, validated, pools, tasks>>

\* mutant: #get.update without its check of the primary key
HasNoPrimaryKey_Unchecked(key) == FALSE

\* if (!primaryKey) of #get.update
HasNoPrimaryKey(key) == ~Truthy(Get(key, "primaryKey"))

\* #get.update: if (!primaryKey) throw; then the first check of
\* #get.matchingColumns: no bag, or a bag without keys
MatchingColumnsBegin ==
  /\ AtTable("matching")
  /\ LET err == IF Statement(Top.fn) = "update" /\ HasNoPrimaryKey(Top.key)
                THEN "Table " \o Top.tableName \o " has no primary key"
                ELSE IF ~Truthy(Top.params) \/ Len(getKeys(Top.params)) = 0
                     THEN "Invalid parameters"
                     ELSE ""
     IN IF err # ""
        THEN /\ stack' = Pop
             /\ ret' = Throw(PlainError(err))
        ELSE /\ stack' = SetTop([Top EXCEPT !.pc = "columns"])
             /\ ret' = NoRet
  /\ UNCHANGED <<config, pool, call, history, rw, STORAGE, validated, completed, pools, tasks>>

\* #get.schema.columns: if (storage) return storage
ColumnsCached ==
  /\ AtTable("columns")
  /\ IsCached(STORAGE.columns[Top.tableName])
  /\ stack' = SetTop([Top EXCEPT !.pc = "synthesis",
                                 !.columns = STORAGE.columns[Top.tableName]])
  /\ completed' = completed \cup {<<"columns", Top.tableName>>}
  /\ UNCHANGED <<config, pool, call, ret, history, rw, STORAGE, validated, pools, tasks>>

\* #get.schema.columns: await this.exec(qry, { table, schema })
ColumnsLookup ==
  /\ AtTable("columns")
  /\ ~IsCached(STORAGE.columns[Top.tableName])
  /\ stack' = Append(SetTop([Top EXCEPT !.pc = "columns1"]),
                     ExecFrame(ColumnsQuery(Top.tableName), SchemaBag(Top.tableName),
                               Undefined, 0))
  /\ ret' = NoRet
  /\ UNCHANGED <<config, pool, call, history, rw, STORAGE, validated, completed, pools, tasks>>

\* the columns query settled: throw when it found no row, else cache the
\* column names
ColumnsFound ==
  /\ AtTable("columns1")
  /\ ret.kind # "none"
  /\ LET res == ret.value
         columns == Arr([i \in 1..Len(res.a) |-> Get(res.a[i], "column_name")])
     IN IF ret.kind = "throw"
        THEN /\ stack' = Pop
             /\ ret' = ret
             /\ STORAGE' = STORAGE
             /\ completed' = completed
        ELSE IF Len(res.a) = 0
        THEN /\ stack' = Pop
             /\ ret' = Throw(PlainError("Table " \o Top.tableName \o " has no columns"))
             /\ STORAGE' = STORAGE
             /\ completed' = completed
        ELSE /\ stack' = SetTop([Top EXCEPT !.pc = "synthesis", !.columns = columns])
             /\ ret' = NoRet
             /\ STORAGE' = [STORAGE EXCEPT !.columns[Top.tableName] = columns]
             /\ completed' = completed \cup {<<"columns", Top.tableName>>}
  /\ UNCHANGED <<config, pool, call, history, rw, validated, pools, tasks>>

\* the statement #get.insert, #get.update or #get.delete builds from what
\* the lookups returned: [err, qry]
Synthesise(f) ==
  CASE Statement(f.fn) = "insert" -> getInsert(f.tableName, f.params, f.key, f.columns)
    [] Statement(f.fn) = "update" -> getUpdate(f.tableName, f.params, f.key, f.columns)
    [] OTHER -> getDelete(f.tableName, f.params, f.columns)

\* the text insert, update and delete pass to #exec
FinalStatement(fn, qry) ==
  IF fn = "insert" THEN qry ELSE qry \o "\nselect @@ROWCOUNT as rowsAffected"

\* the rest of #get.insert, #get.update, #get.delete; print.* returns the
\* text, the others return this.#exec(text, params, true)
TableSynthesis ==
  /\ AtTable("synthesis")
  /\ LET out == Synthesise(Top) IN
     IF out.err # ""
     THEN /\ stack' = Pop
          /\ ret' = Throw(PlainError(out.err))
     ELSE IF Top.fn \in {"print.insert", "print.update", "print.delete"}
     THEN /\ stack' = Pop
          /\ ret' = Return(Str(out.qry))
     ELSE /\ stack' = Append(SetTop([Top EXCEPT !.pc = "exec"]),
                             ExecFrame(FinalStatement(Top.fn, out.qry), Top.params,
                                       Bool(TRUE), 0))
          /\ ret' = NoRet
  /\ UNCHANGED <<config, pool, call, history, rw, STORAGE, validated, completed, pools, tasks>>

\* return this.#exec(...): the operation settles as the statement did
TableExecDone ==
  /\ AtTable("exec")
  /\ ret.kind # "none"
  /\ stack' = Pop
  /\ UNCHANGED <<config, pool, call, ret, history, rw, STORAGE, validated, completed, pools, tasks>>

\* get.identityColumn: #get.schema.identityColumns runs its query with
\* this.exec(qry, { table, schema })
IdentityColumnsLookup ==
  /\ AtTable("identityColumns")
  /\ stack' = Append(SetTop([Top EXCEPT !.pc = "identityColumns1"]),
                     ExecFrame(IdentityColumnsQuery(Top.tableName), SchemaBag(Top.tableName),
                               Undefined, 0))
  /\ ret' = NoRet
  /\ UNCHANGED <<config, pool, call, history, rw, STORAGE, validated, completed, pools, tasks>>

\* return cols?.[0]?.column_name
IdentityColumnFound ==
  /\ AtTable("identityColumns1")
  /\ ret.kind # "none"
  /\ stack' = Pop
  /\ ret' = IF ret.kind = "throw" THEN ret
            ELSE Return(Get(Index0(ret.value), "column_name"))
  /\ UNCHANGED <<config, pool, call, history, rw, STORAGE, validated, completed, pools, tasks>>

\* the number of rejected executions a table operation is followed through
MaxTableFaults == 1

\* the errors the driver raises against the statements of table operations
TableFaults == {DeadlockError, NextUsageError, ConstraintError}

Faults == Len(SelectSeq(attempts, LAMBDA a : a # "ok"))

InitTables ==
  /\ config = Constructor(Undefined)
  /\ pool = 0
  /\ call = IdleCall
  /\ stack = <<>>
  /\ ret = NoRet
  /\ sent = <<>>
  /\ attempts = <<>>
  /\ lastErr = NoDriverError
  /\ lastResult = Undefined
  /\ slept = 0
  /\ fallbacks = <<>>
  /\ fallbackRet = NoRet
  /\ rw = IdleRw
  /\ STORAGE = EmptyStorage
  /\ validated = {}
  /\ completed = {}
  /\ pools = <<>>
  /\ tasks = <<>>
  /\ handled = <<>>

NextTables ==
  \/ \E fn \in TableOps, tableName \in TableNames, params \in TableBags :
       CallTable(fn, tableName, params)
  \/ TableValidate
  \/ PrimaryKeyCached
  \/ PrimaryKeyLookup
  \/ PrimaryKeyDeclared
  \/ PrimaryKeyIdentity
  \/ MatchingColumnsBegin
  \/ ColumnsCached
  \/ ColumnsLookup
  \/ ColumnsFound
  \/ TableSynthesis
  \/ TableExecDone
  \/ IdentityColumnsLookup
  \/ IdentityColumnFound
  \/ ExecConnect
  \/ ExecSend
  \/ \E result \in EngineResults : DriverResolve(result)
  \/ \E err \in TableFaults : Faults < MaxTableFaults /\ DriverReject(err)
  \/ ExecRetry
  \/ ExecRetryDone
  \/ ExecFallback
  \/ ExecFallbackDone
  \/ ExecThrow

SpecTables == InitTables /\ [][NextTables]_vars

\* insert and update on tables with each kind of key
KeyedOps == {"insert", "update"}

NextKeyed ==
  \/ \E fn \in KeyedOps, tableName \in KeyedTableNames, params \in TableBags :
       CallTable(fn, tableName, params)
  \/ TableValidate
  \/ PrimaryKeyCached
  \/ PrimaryKeyLookup
  \/ PrimaryKeyDeclared
  \/ PrimaryKeyIdentity
  \/ MatchingColumnsBegin
  \/ ColumnsCached
  \/ ColumnsLookup
  \/ ColumnsFound
  \/ TableSynthesis
  \/ TableExecDone
  \/ ExecConnect
  \/ ExecSend
  \/ \E result \in EngineResults : DriverResolve(result)
  \/ \E err \in TableFaults : Faults < MaxTableFaults /\ DriverReject(err)
  \/ ExecRetry
  \/ ExecRetryDone
  \/ ExecFallback
  \/ ExecFallbackDone
  \/ ExecThrow

SpecKeyed == InitTables /\ [][NextKeyed]_vars


(***************************************************************************)
(* Properties of the table operations                                      *)
(***************************************************************************)

\* the name and its non-empty dot-separated parts
NameComponents(tableName) ==
  ({tableName} \cup { Split(tableName, ".")[i] : i \in 1..Len(Split(tableName, ".")) })
    \ {""}

\* C1: no statement text that contains the table name of the operation, or
\* one of its dot-separated components (the catalog prefix of the
\* introspection queries included), is executed unless validateTableName
\* accepted that name first.
C1_OnlyValidatedNamesReachSql ==
  \A i \in 1..Len(sent) :
    (\E c \in NameComponents(call.tableName) : Includes(sent[i], c)) =>
       call.tableName \in validated

\* the statement of the batch, after the header and SET ROWCOUNT 1, is a DELETE
IsDeleteText(text) ==
  \/ MatchAtCI(text, Len(TranHeader) + 2, "delete from ")
  \/ MatchAtCI(text, Len(TranHeader \o "\nSET ROWCOUNT 1;") + 2, "delete from ")

\* every value of the bag is null or undefined (so for the empty bag)
NoFilterValues(params) ==
  \A i \in 1..Len(getKeys(params)) : getKeys(params)[i].value.k \in {"undefined", "null"}

\* the text has a WHERE clause that starts with a condition on a key of the bag
HasWhereCondition(text, params) ==
  \E i \in 1..Len(getKeys(params)) :
    Includes(text, "where " \o getKeys(params)[i].key \o " = @_" \o getKeys(params)[i].key)

\* C2: no DELETE statement is sent to the driver without a WHERE clause
\* that holds a condition; delete(table, bag) with an empty bag, or a bag
\* whose values are all null or undefined, throws before any DELETE text is
\* executed, and what it throws for a table whose name is accepted and
\* whose columns are found is the 'no valid filter conditions' error.
C2_DeleteNeedsFilter ==
  /\ \A i \in 1..Len(sent) :
       IsDeleteText(sent[i]) => HasWhereCondition(sent[i], call.params)
  /\ (call.op = "delete" /\ NoFilterValues(call.params)) =>
        \A i \in 1..Len(sent) : ~IsDeleteText(sent[i])
  /\ (call.op = "delete" /\ Done /\ NoFilterValues(call.params)) =>
        /\ ret.kind = "throw"
        /\ (validateTableName(call.tableName) = "" /\ Truthy(STORAGE.columns[call.tableName]))
             => ret.error.message = "No valid filter conditions provided for delete operation"

\* delete with a bag of null and undefined values only, on an existing
\* table whose columns were just looked up, threw the filter error
C2_Witness ==
  /\ call.op = "delete" /\ Done
  /\ Len(getKeys(call.params)) > 0 /\ NoFilterValues(call.params)
  /\ call.tableName = "appdb.dbo.users"
  /\ Len(sent) = 1 /\ IsColumnsQuery(sent[1])
  /\ ret.kind = "throw"
  /\ ret.error.message = "No valid filter conditions provided for delete operation"

\* C3: the WHERE clause of the statement delete(table, bag) emits holds
\* exactly one condition "column = @_column" per key of the bag whose value
\* is neither null nor undefined, joined by AND; there is no implicit
\* primary-key condition and no condition is dropped.
C3_DeleteFiltersOnEveryValue ==
  \A i \in 1..Len(sent) :
    (call.op = "delete" /\ IsDeleteText(sent[i])) =>
       LET Present(e) == e.value.k \notin {"undefined", "null"}
           fields == SelectSeq(getKeys(call.params), Present)
           clause == Join([k \in 1..Len(fields) |->
                             fields[k].key \o " = @_" \o fields[k].key], " AND ")
       IN Includes(sent[i], "delete from " \o call.tableName \o "\n      where "
                              \o clause \o "\nselect @@ROWCOUNT")

\* the table of the database a valid table name denotes
TableOf(tableName) ==
  CHOOSE t \in DbTables : Str(t.table) = schemaParts(tableName).table

\* the key of the table as the schema cache is to hold it: the declared
\* primary key, else the identity column, else "" for none
KeyOf(t) == IF t.primaryKey # "" THEN t.primaryKey ELSE t.identity

\* the key of the table is generated by the engine
HasAutoKey(t) == KeyOf(t) # "" /\ KeyOf(t) = t.identity

\* the columns of the table that are keys of the bag, the column key left out
BagColumns(t, params, key) ==
  SelectSeq(t.columns, LAMBDA c : HasKey(params, c) /\ c # key)

\* the statement of the batch, after the header and SET ROWCOUNT 1, is an INSERT
IsInsertText(text) == Includes(text, "\n      insert into ")

\* C13: the INSERT that insert(table, bag) emits for a table with an
\* auto-generated primary key lists exactly the table columns that are keys
\* of the bag, minus the primary key, with one @_column value per listed
\* column; a bag key that is no table column never appears, and if no column
\* matches insert throws without emitting an INSERT.
C13_InsertListsBagColumns ==
  (call.op = "insert" /\ call.tableName \in KeyedTableNames
     /\ HasAutoKey(TableOf(call.tableName))) =>
    LET t == TableOf(call.tableName)
        columns == BagColumns(t, call.params, KeyOf(t))
    IN /\ \A i \in 1..Len(sent) :
            IsInsertText(sent[i]) =>
              /\ Len(columns) > 0
              /\ Includes(sent[i], "insert into " \o call.tableName \o " (["
                                     \o Join(columns, "],[") \o "]) \n")
              /\ Includes(sent[i], "\nvalues ("
                                     \o Join([k \in 1..Len(columns) |-> "@_" \o columns[k]], ",")
                                     \o ")\n")
       /\ (Done /\ Len(columns) = 0) => ret.kind = "throw"

\* the cache holds, for a table without a declared primary key, the
\* identity column as its key
KeyFromIdentityFallback(tableName) ==
  /\ TableOf(tableName).primaryKey = ""
  /\ TableOf(tableName).identity # ""
  /\ Truthy(STORAGE.keys[tableName])
  /\ Get(STORAGE.keys[tableName], "primaryKey") = Str(TableOf(tableName).identity)

\* C23: when the key of a table without a declared primary key was found
\* through the identity-column fallback, the cached entry marks the key as
\* auto-generated, and the INSERT that insert emits for the table does not
\* list the column even when the bag has a value for it.
C23_FallbackKeyIsAutoGenerated ==
  \A tableName \in KeyedTableNames :
    KeyFromIdentityFallback(tableName) =>
      /\ Truthy(Get(STORAGE.keys[tableName], "isIdentity"))
      /\ (call.op = "insert" /\ call.tableName = tableName) =>
            \A i \in 1..Len(sent) :
              IsInsertText(sent[i]) =>
                ~Includes(sent[i], "[" \o TableOf(tableName).identity \o "]")

\* the statement of the batch, after the header and SET ROWCOUNT 1, is an UPDATE
IsUpdateText(text) == Includes(text, "\nupdate ")

\* the UPDATE text for the table name, the bag and the key column
UpdateText(tableName, params, key) ==
  LET columns == BagColumns(TableOf(tableName), params, key) IN
  "update " \o tableName \o " set\n      "
    \o Join([k \in 1..Len(columns) |-> columns[k] \o " = @_" \o columns[k]], ",\n")
    \o "\n      where " \o key \o " = @_" \o key \o " "

\* every UPDATE text sent sets the bag's columns other than the key column
\* of the table and has a WHERE clause on that key column
UpdatesAreKeyed(KeyColumn(_)) ==
  \A i \in 1..Len(sent) :
    IsUpdateText(sent[i]) =>
      /\ KeyColumn(TableOf(call.tableName)) # ""
      /\ Includes(sent[i], "\n" \o UpdateText(call.tableName, call.params,
                                              KeyColumn(TableOf(call.tableName)))
                             \o "\nselect @@ROWCOUNT as rowsAffected\n")

DeclaredKeyOf(t) == t.primaryKey

\* C14 as stated: update(table, bag) for a table with no declared primary
\* key throws and no UPDATE statement is sent; every UPDATE statement sent
\* has a WHERE clause on the table's primary key and never lists the primary
\* key in its SET list.
C14_UpdateNeedsDeclaredKey ==
  (call.op = "update" /\ call.tableName \in KeyedTableNames) =>
    /\ DeclaredKeyOf(TableOf(call.tableName)) = "" =>
         /\ \A i \in 1..Len(sent) : ~IsUpdateText(sent[i])
         /\ Done => ret.kind = "throw"
    /\ UpdatesAreKeyed(DeclaredKeyOf)

\* C14 amended: update(table, bag) for a table with neither a declared
\* primary key nor an identity column throws (when no lookup failed, that
\* the table has no primary key) and no UPDATE statement is sent; every
\* UPDATE statement sent has a WHERE clause on the table's key column, the
\* declared primary key or else the identity column, and never lists that
\* column in its SET list.
C14_UpdateNeedsKeyColumn ==
  (call.op = "update" /\ call.tableName \in KeyedTableNames) =>
    /\ KeyOf(TableOf(call.tableName)) = "" =>
         /\ \A i \in 1..Len(sent) : ~IsUpdateText(sent[i])
         /\ Done => ret.kind = "throw"
         /\ (Done /\ Faults = 0) =>
               ret.error.message = "Table " \o call.tableName \o " has no primary key"
    /\ UpdatesAreKeyed(KeyOf)

\* update of the table without any key threw after both key queries, and
\* sent nothing else
C14_Witness ==
  /\ call.op = "update" /\ Done
  /\ call.tableName = "tags"
  /\ HasKey(call.params, "name")
  /\ Len(sent) = 2
  /\ IsIdentityFallbackQuery(sent[2])
  /\ ret.kind = "throw"
  /\ ret.error.message = "Table tags has no primary key"

\* the step answers a key lookup from the cache: no statement is sent, no
\* #exec is started, and the caller gets the entry STORAGE holds
KeyAnsweredFromCache ==
  /\ sent' = sent
  /\ STORAGE' = STORAGE
  /\ Len(stack') = Len(stack)
  /\ stack'[Len(stack)].pc = "matching"
  /\ stack'[Len(stack)].key = STORAGE.keys[Top.tableName]

\* the same for a column lookup
ColumnsAnsweredFromCache ==
  /\ sent' = sent
  /\ STORAGE' = STORAGE
  /\ Len(stack') = Len(stack)
  /\ stack'[Len(stack)].pc = "synthesis"
  /\ stack'[Len(stack)].columns = STORAGE.columns[Top.tableName]

\* C15: once a primary-key lookup for a table name has returned (also when
\* it found neither a declared key nor an identity column), and once a
\* column lookup has returned, every lookup for the same name that starts
\* later is answered with the cached entry and sends no introspection query.
C15_LookupsAnsweredFromCache ==
  [][ /\ (AtTable("primaryKey") /\ <<"primaryKey", Top.tableName>> \in completed)
         => KeyAnsweredFromCache
      /\ (AtTable("columns") /\ <<"columns", Top.tableName>> \in completed)
         => ColumnsAnsweredFromCache ]_vars

\* a later operation on the table without any key got the cached entry,
\* which names no key, without a statement being sent
C15_Witness ==
  /\ call.tableName = "tags"
  /\ AtTable("matching")
  /\ <<"primaryKey", "tags">> \in completed
  /\ Top.key = KeyEntry(Undefined, Undefined)
  /\ sent = <<>>

\* insert, update, delete: the helpers that execute what they synthesise
Helpers == {"insert", "update", "delete"}

\* a synthesised INSERT, UPDATE or DELETE
IsSynthesisedText(text) == IsInsertText(text) \/ IsUpdateText(text) \/ IsDeleteText(text)

\* the name holds a statement terminator, a comment start or a quote
IsInjectionName(tableName) ==
  Includes(tableName, ";") \/ Includes(tableName, "--") \/ Includes(tableName, "'")

\* the errors the helpers raise themselves
ValidationMessages(tableName) ==
  { validateTableName(tableName),
    "Invalid parameters",
    "Table " \o tableName \o " has no primary key",
    "Table " \o tableName \o " has no columns",
    "No columns in table " \o tableName \o " have been matched for with parameters",
    "No valid filter conditions provided for delete operation" }
  \cup UNION { { "Column '" \o getKeys(p)[i].key \o "' does not exist in table " \o tableName :
                   i \in 1..Len(getKeys(p)) } : p \in TableBags }

\* C17: an error that insert, update or delete raises itself (invalid table
\* name, no matching columns, no primary key for update, no filter for
\* delete) is thrown as it is, without the synthesised INSERT, UPDATE or
\* DELETE having been sent; when the driver rejected nothing there was no
\* sleep, no fallback and no statement but the introspection queries, each
\* sent once; for an invalid table name no statement at all is sent.
C17_ValidationErrorsSendNothing ==
  call.op \in Helpers =>
    /\ (Done /\ ret.kind = "throw" /\ ret.error.name = "Error") =>
          /\ ret.error.message \in ValidationMessages(call.tableName)
          /\ \A i \in 1..Len(sent) : IsIntrospection(sent[i]) /\ ~IsSynthesisedText(sent[i])
    /\ (Done /\ ret.kind = "throw" /\ Faults = 0) =>
          /\ ret.error.name = "Error"
          /\ slept = 0
          /\ fallbacks = <<>>
          /\ Len(attempts) = Len(sent)
          /\ \A i \in 1..Len(sent), j \in 1..Len(sent) : sent[i] = sent[j] => i = j
    /\ IsInjectionName(call.tableName) =>
          /\ sent = <<>>
          /\ attempts = <<>>
          /\ Done => (ret.kind = "throw" /\ MatchAt(ret.error.message, 1, "Invalid table name: "))

\* insert found no column of the table among the keys of the bag, after
\* the key queries and the column query, and sent nothing else
C17_Witness ==
  /\ call.op = "insert" /\ Done
  /\ call.tableName = "appdb..logs"
  /\ Len(sent) = 3
  /\ IsColumnsQuery(sent[3])
  /\ ret.kind = "throw"
  /\ MatchAt(ret.error.message, 1, "No columns in table appdb..logs have been matched")

\* the reference `@_name` at position j of the text names a key of the bag
ReferenceBound(text, j, params) ==
  \E k \in 1..Len(getKeys(params)) :
    /\ MatchAt(text, j + 2, getKeys(params)[k].key)
    /\ SkipWord(text, j + 2) = j + 2 + Len(getKeys(params)[k].key)

\* C22: every `@_name` reference of a statement synthesised by insert,
\* update or delete names a key of the bag that is handed to the binder, so
\* that no synthesised statement refers to an unbound parameter; update
\* finds the primary key in the bag or sends no UPDATE.
C22_SynthesisedReferencesBound ==
  \A i \in 1..Len(sent) :
    (call.op \in Helpers /\ IsSynthesisedText(sent[i])) =>
      \A j \in 1..Len(sent[i]) :
        MatchAt(sent[i], j, "@_") => ReferenceBound(sent[i], j, call.params)

(***************************************************************************)
(* validateTableName on its own, applied to names of every form            *)
(***************************************************************************)

\* components built from letters, digits and underscores only
PlainParts == {"users", "dbo", "App_db1", "Dropbox", "TRUNCATE_t", "alter1", "Executor",
               "sp_users", "my_xp_1"}

\* components that hold a statement terminator, a comment start or a quote
MarkedParts == {"a;b", "x--y", "o'hara", "say\"hi"}

NameParts == PlainParts \cup MarkedParts

\* the names handed to validateTableName: table, schema.table,
\* db.schema.table, db..table, temporary tables, and four-part names
ValidateNames ==
  NameParts
    \cup { a \o "." \o b : a \in NameParts, b \in NameParts }
    \cup { a \o "." \o b \o "." \o c : a \in NameParts, b \in NameParts, c \in NameParts }
    \cup { a \o ".." \o c : a \in NameParts, c \in NameParts }
    \cup { "#" \o a : a \in NameParts }
    \cup { "srv." \o a \o ".dbo." \o c : a \in PlainParts, c \in PlainParts }

InitValidate ==
  /\ config = Constructor(Undefined)
  /\ pool = 0
  /\ \E tableName \in ValidateNames :
       call = [IdleCall EXCEPT !.op = "validateTableName", !.tableName = tableName]
  /\ stack = <<>>
  /\ ret = NoRet
  /\ sent = <<>>
  /\ attempts = <<>>
  /\ lastErr = NoDriverError
  /\ lastResult = Undefined
  /\ slept = 0
  /\ fallbacks = <<>>
  /\ fallbackRet = NoRet
  /\ rw = IdleRw
  /\ STORAGE = EmptyStorage
  /\ validated = {}
  /\ completed = {}
  /\ pools = <<>>
  /\ tasks = <<>>
  /\ handled = <<>>

\* validateTableName(tableName): returns nothing, or throws
Validate ==
  /\ call.op = "validateTableName"
  /\ ret.kind = "none"
  /\ \E err \in {validateTableName(call.tableName)} :
       IF err # ""
       THEN /\ ret' = Throw(PlainError(err))
            /\ validated' = validated
       ELSE /\ ret' = Return(Undefined)
            /\ validated' = validated \cup {call.tableName}
  /\ UNCHANGED <<config, pool, call, stack, history, rw, STORAGE, completed, pools, tasks>>

NextValidate == Validate

SpecValidate == InitValidate /\ [][NextValidate]_vars

(***************************************************************************)
(* Properties of validateTableName                                         *)
(***************************************************************************)

\* every character of the part is a letter, a digit or an underscore
IsPlainPart(part) ==
  Len(part) > 0 /\ \A i \in 1..Len(part) : IsWordChar(CharAt(part, i))

\* table, schema.table, db.schema.table, db..table or #tempTable, built
\* from letters, digits and underscores
HasAcceptedForm(tableName) ==
  LET parts == Split(tableName, ".")
      n == Len(parts)
  IN \/ n \in 1..3 /\ \A i \in 1..n : IsPlainPart(parts[i])
     \/ n = 3 /\ IsPlainPart(parts[1]) /\ parts[2] = "" /\ IsPlainPart(parts[3])
     \/ n = 1 /\ CharAt(tableName, 1) = "#" /\ IsPlainPart(SubSeq(tableName, 2, Len(tableName)))

\* the substrings the claim names, the keywords in lower case
NamedPatterns == {";", "--", "'", "\"", "drop", "truncate", "alter", "exec"}

\* some dot-separated component holds one of the named substrings, or
\* there are more than three components
HasRejectedForm(tableName) ==
  LET parts == Split(tableName, ".") IN
  \/ Len(parts) > 3
  \/ \E i \in 1..Len(parts) : \E pat \in NamedPatterns : IncludesLower(parts[i], pat)

\* the keyword and procedure-prefix substrings validateTableName looks for
KeywordPatterns == {"xp_", "sp_", "exec", "drop", "truncate", "alter"}

HasKeyword(tableName) == \E pat \in KeywordPatterns : IncludesLower(tableName, pat)

Validated == call.op = "validateTableName" /\ ret.kind # "none"

\* C12 as stated: validateTableName accepts every name of the forms table,
\* schema.table, db.schema.table, db..table and #tempTable built from
\* letters, digits and underscores, and throws for every name in which some
\* component contains ; -- a quote or drop, truncate, alter, exec in any
\* letter case, and for every name of more than three components.
C12_AcceptsFormsRejectsPatterns ==
  Validated =>
    /\ HasAcceptedForm(call.tableName) => ret.kind = "return"
    /\ HasRejectedForm(call.tableName) => ret.kind = "throw"

\* C12 amended: validateTableName accepts every name of those forms built
\* from letters, digits and underscores in which none of xp_, sp_, exec,
\* drop, truncate, alter occurs in any letter case, and throws for every
\* name in which some component contains ; -- a quote or one of drop,
\* truncate, alter, exec, and for every name of more than three components.
C12_AcceptsKeywordFreeForms ==
  Validated =>
    /\ (HasAcceptedForm(call.tableName) /\ ~HasKeyword(call.tableName)) =>
          (ret.kind = "return" /\ call.tableName \in validated)
    /\ HasRejectedForm(call.tableName) =>
          (ret.kind = "throw" /\ call.tableName \notin validated)

\* a db..table name whose table part holds truncate in upper case was
\* rejected for that part
C12_Witness ==
  /\ Validated
  /\ call.tableName = "App_db1..TRUNCATE_t"
  /\ ret.kind = "throw"
  /\ Includes(ret.error.message, "Contains potentially dangerous pattern in \"TRUNCATE_t\"")

(***************************************************************************)
(* for(query, params, fun): exec, then the handler once per row            *)
(***************************************************************************)

\* a pending call of for; i is the position of the row the loop hands to
\* the handler next, pending the rows whose handler promise has not settled
ForFrame(query, params) ==
  [fn |-> "for", pc |-> "exec", query |-> query, params |-> params,
   rows |-> Undefined, i |-> 1, pending |-> <<>>]

ForStatements ==
  { "select * from t where id in (@_ids) order by id",
    "insert into t (id) values (@_id)" }

ForBags ==
  { Obj(<<Entry("ids", Arr(<<Num(1), Num(3)>>)), Entry("limit", Num(10))>>),
    Obj(<<Entry("id", Num(7)), Entry("limit", Num(0))>>) }

\* an event of the handler: its invocation with a row, or the settling of
\* the promise that invocation returned
HandlerEvent(ev, i, row) == [ev |-> ev, i |-> i, row |-> row]

\* the caller invokes for, whose first statement calls exec(query, params)
CallFor(query, params) ==
  /\ Len(stack) = 0
  /\ call' = [IdleCall EXCEPT !.op = "for", !.query = query, !.params = params]
  /\ stack' = <<ForFrame(query, params), ExecFrame(query, params, Undefined, 0)>>
  /\ ret' = NoRet
  /\ FreshHistory
  /\ UNCHANGED <<config, STORAGE, validated, pool, rw, completed, pools, tasks>>

\* exec rejected: the await throws and the error leaves for
ForExecThrew ==
  /\ Running("for", "exec")
  /\ ret.kind = "throw"
  /\ stack' = Pop
  /\ UNCHANGED <<config, STORAGE, validated, pool, call, ret, history, rw, completed, pools,
                 tasks>>

\* const rows = await this.exec(query, params);
\* if (rows && rows?.length > 0) enter the loop, otherwise return rows
ForRows ==
  /\ Running("for", "exec")
  /\ ret.kind = "return"
  /\ IF Truthy(ret.value) /\ IsArray(ret.value) /\ Len(ret.value.a) > 0
     THEN /\ stack' = SetTop([Top EXCEPT !.pc = "loop", !.rows = ret.value])
          /\ ret' = NoRet
     ELSE /\ stack' = Pop
          /\ ret' = ret
  /\ UNCHANGED <<config, STORAGE, validated, pool, call, history, rw, completed, pools, tasks>>

\* mutant: the loop goes on to the next row without awaiting the handler
MayInvoke_NotAwaited(f) == f.i <= Len(f.rows.a)

\* for (const r of rows) { await fun(r) }: the loop takes the next row
\* only when the promise of the previous invocation has settled
MayInvoke(f) == f.i <= Len(f.rows.a) /\ f.pending = <<>>

\* fun(r) is called with the next row
ForInvoke ==
  /\ Running("for", "loop")
  /\ MayInvoke(Top)
  /\ handled' = Append(handled, HandlerEvent("start", Top.i, Top.rows.a[Top.i]))
  /\ stack' = SetTop([Top EXCEPT !.i = Top.i + 1, !.pending = Append(Top.pending, Top.i)])
  /\ UNCHANGED <<config, STORAGE, validated, pool, call, ret, sent, attempts, lastErr,
                 lastResult, slept, fallbacks, fallbackRet, rw, completed, pools, tasks>>

\* the promise of a pending invocation resolves
HandlerResolve ==
  /\ Running("for", "loop")
  /\ \E k \in 1..Len(Top.pending) :
       /\ handled' = Append(handled, HandlerEvent("resolve", Top.pending[k],
                                                  Top.rows.a[Top.pending[k]]))
       /\ stack' = SetTop([Top EXCEPT !.pending =
                             SubSeq(Top.pending, 1, k - 1)
                               \o SubSeq(Top.pending, k + 1, Len(Top.pending))])
  /\ UNCHANGED <<config, STORAGE, validated, pool, call, ret, sent, attempts, lastErr,
                 lastResult, slept, fallbacks, fallbackRet, rw, completed, pools, tasks>>

\* the promise of a pending invocation rejects: the await throws, the loop
\* is left and the error leaves for
HandlerReject ==
  /\ Running("for", "loop")
  /\ \E k \in 1..Len(Top.pending) :
       handled' = Append(handled, HandlerEvent("reject", Top.pending[k],
                                               Top.rows.a[Top.pending[k]]))
  /\ stack' = Pop
  /\ ret' = Throw(PlainError("handler rejected"))
  /\ UNCHANGED <<config, STORAGE, validated, pool, call, sent, attempts, lastErr,
                 lastResult, slept, fallbacks, fallbackRet, rw, completed, pools, tasks>>

\* the loop is over: return rows
ForReturn ==
  /\ Running("for", "loop")
  /\ Top.i > Len(Top.rows.a)
  /\ Top.pending = <<>>
  /\ stack' = Pop
  /\ ret' = Return(Top.rows)
  /\ UNCHANGED <<config, STORAGE, validated, pool, call, history, rw, completed, pools, tasks>>

InitFor ==
  /\ config = Constructor(Undefined)
  /\ pool = 0
  /\ call = IdleCall
  /\ stack = <<>>
  /\ ret = NoRet
  /\ sent = <<>>
  /\ attempts = <<>>
  /\ lastErr = NoDriverError
  /\ lastResult = Undefined
  /\ slept = 0
  /\ fallbacks = <<>>
  /\ fallbackRet = NoRet
  /\ rw = IdleRw
  /\ STORAGE = EmptyStorage
  /\ validated = {}
  /\ completed = {}
  /\ pools = <<>>
  /\ tasks = <<>>
  /\ handled = <<>>

NextFor ==
  \/ \E query \in ForStatements, params \in ForBags : CallFor(query, params)
  \/ ExecSteps
  \/ ForExecThrew
  \/ ForRows
  \/ ForInvoke
  \/ HandlerResolve
  \/ HandlerReject
  \/ ForReturn

SpecFor == InitFor /\ [][NextFor]_vars

(***************************************************************************)
(* Properties of for                                                       *)
(***************************************************************************)

\* the rows exec returned to for: the shaped rows of the first result set
ForRowSet == ShapedSet(FirstSet(lastResult), TRUE)

\* the handler events so far are invocation and settling in turn, row
\* after row from the first one on
HandlersInTurn ==
  \A j \in 1..Len(handled) :
    /\ handled[j].i = (j + 1) \div 2
    /\ handled[j].i <= Len(ForRowSet.a)
    /\ handled[j].row = ForRowSet.a[handled[j].i]
    /\ (j % 2 = 1) => handled[j].ev = "start"
    /\ (j % 2 = 0) => handled[j].ev \in {"resolve", "reject"}

\* C19: for invokes the handler once per returned row, in row order, each
\* invocation only after the promise of the previous one has settled, so
\* that no two invocations are in flight together; it resolves, with the
\* full row set, only after the handler has been invoked for every row and
\* every invocation has resolved.
C19_HandlersOneAtATime ==
  call.op = "for" =>
    /\ HandlersInTurn
    /\ (Done /\ ret.kind = "return") =>
          /\ ret.value = ForRowSet
          /\ Len(handled) = 2 * Len(ForRowSet.a)
          /\ \A j \in 1..Len(handled) : handled[j].ev # "reject"

\* for resolved with two rows after the handler ran for the first row and
\* then for the second
C19_Witness ==
  /\ call.op = "for" /\ Done /\ ret.kind = "return"
  /\ Len(ret.value.a) = 2
  /\ Len(handled) = 4
  /\ handled[2].ev = "resolve"
  /\ handled[3] = HandlerEvent("start", 2, ret.value.a[2])

(***************************************************************************)
(* #reqInput of src/index.js: the engine type inferred for a bound value   *)
(***************************************************************************)

\* A JavaScript number may lie beyond the integers of the model checker, so
\* a number given to the binder is held as its floor and its fraction: the
\* floor is hi * Million + lo with lo in 0..Million - 1, the fraction is
\* "none", "half" (1/2) or "tiny" (1e-7).
Million == 1000 * 1000

Wide(hi, lo) == [hi |-> hi, lo |-> lo]

ToWide(i) == Wide(i \div Million, i % Million)

WidePlus(w, d) == Wide(w.hi + ((w.lo + d) \div Million), (w.lo + d) % Million)

WideGreater(a, b) == a.hi > b.hi \/ (a.hi = b.hi /\ a.lo > b.lo)

WideNegate(w) ==
  IF w.lo = 0 THEN Wide(0 - w.hi, 0) ELSE Wide(0 - w.hi - 1, Million - w.lo)

WideZero == Wide(0, 0)

BinderNumber(w, frac) == [k |-> "wide", w |-> w, frac |-> frac]

IsBinderNumber(v) == v.k = "wide"

\* the decimal digits of a floor that is not negative
WideDigits(w) ==
  IF w.hi = 0 THEN NatToString(w.lo)
  ELSE NatToString(w.hi) \o SubSeq("000000", 1, 6 - Len(NatToString(w.lo)))
                         \o NatToString(w.lo)

\* Number.prototype.toString of a binder number
NumberToString(v) ==
  LET whole == WideNegate(WidePlus(v.w, 1)) IN
  CASE v.frac = "none" ->
         IF v.w.hi < 0 THEN "-" \o WideDigits(WideNegate(v.w)) ELSE WideDigits(v.w)
    [] v.frac = "half" ->
         IF v.w.hi < 0 THEN "-" \o WideDigits(whole) \o ".5" ELSE WideDigits(v.w) \o ".5"
    [] OTHER ->
         IF v.w = WideZero THEN "1e-7"
         ELSE IF v.w.hi < 0 THEN "-" \o WideDigits(whole) \o ".9999999"
         ELSE WideDigits(v.w) \o ".0000001"

\* new Set(elems)
JsSet(elems) == [k |-> "set", n |-> 0, s |-> "", a |-> elems]

IsSet(v) == v.k = "set"

\* the text of an element of an array in Array.prototype.toString: null
\* and undefined give the empty text
ElementToString(e) ==
  CASE e.k = "number" -> NatToString(e.n)
    [] e.k = "string" -> e.s
    [] e.k = "boolean" -> IF e.n = 1 THEN "true" ELSE "false"
    [] OTHER -> ""

\* value.toString() of the values given to the binder
ValueToString(v) ==
  CASE IsBinderNumber(v) -> NumberToString(v)
    [] v.k = "nan" -> "NaN"
    [] v.k = "string" -> v.s
    [] v.k = "boolean" -> IF v.n = 1 THEN "true" ELSE "false"
    [] v.k = "array" -> Join([i \in 1..Len(v.a) |-> ElementToString(v.a[i])], ",")
    [] v.k = "set" -> "[object Set]"
    [] v.k = "object" -> "[object Object]"
    [] OTHER -> ""

\* JSON.stringify of a scalar that is an element or a property
ElementJson(e) ==
  CASE e.k = "number" -> NatToString(e.n)
    [] e.k = "string" -> "\"" \o e.s \o "\""
    [] e.k = "boolean" -> IF e.n = 1 THEN "true" ELSE "false"
    [] OTHER -> "null"

\* JSON.stringify of an array or an object of scalars
JSONStringify(v) ==
  CASE v.k = "array" ->
         "[" \o Join([i \in 1..Len(v.a) |-> ElementJson(v.a[i])], ",") \o "]"
    [] v.k = "object" ->
         "{" \o Join([i \in 1..Len(v.a) |->
                        "\"" \o v.a[i].key \o "\":" \o ElementJson(v.a[i].value)], ",") \o "}"
    [] OTHER -> ElementJson(v)

\* !value
Falsy(v) ==
  IF IsBinderNumber(v) THEN v.w = WideZero /\ v.frac = "none" ELSE ~Truthy(v)

\* lodash isNumber
isNumber(v) == IsBinderNumber(v) \/ v.k = "nan"

\* function isFloat(n) { return !isNaN(n) && n.toString().indexOf(".") != -1 }
isFloat(n) == n.k # "nan" /\ Includes(ValueToString(n), ".")

\* the literal of `_value > 2047483647`
IntThreshold == 2047483647

\* value > limit, for a limit that is an integer
NumberGreater(v, limit) ==
  /\ IsBinderNumber(v)
  /\ \/ WideGreater(v.w, ToWide(limit))
     \/ v.w = ToWide(limit) /\ v.frac # "none"

BoundParameter(type, value) == [type |-> type, value |-> value]

\* #reqInput(req, _key, value): the name of the engine type handed to
\* req.input, and the value bound
reqInput(_key, value) ==
  LET _value == IF _key = "_page" /\ Falsy(value) THEN BinderNumber(WideZero, "none")
                ELSE value
  IN IF value.k \in {"null", "undefined"} THEN BoundParameter("NVarChar(11)", Null)
     ELSE IF ValueToString(_value) = "0" THEN BoundParameter("int", _value)
     ELSE IF isNumber(_value)
          THEN IF isFloat(_value) THEN BoundParameter("float", _value)
               ELSE IF NumberGreater(_value, IntThreshold)
                    THEN BoundParameter("BigInt", _value)
                    ELSE BoundParameter("int", _value)
     ELSE IF _value.k \in {"array", "object", "set"}
          THEN BoundParameter("NVarChar(max)",
                              Str(JSONStringify(IF IsSet(_value) THEN Arr(_value.a)
                                                ELSE _value)))
     ELSE IF _value.k = "string"
          THEN BoundParameter("NVarChar(" \o NatToString(Len(_value.s) + 2 + 20) \o ")", _value)
     ELSE BoundParameter("NVarChar(10)", Str(ValueToString(_value)))

MaxOffset == 2

\* the values around which numbers are explored: 0, the literal of the
\* source, the ends of the 32-bit signed range, and 2^32
NumberAnchors ==
  { WideZero, ToWide(IntThreshold), Wide(2147, 483647), Wide(-2148, 516352),
    Wide(4294, 967296) }

BinderNumbers ==
  { BinderNumber(WidePlus(w, d), frac) :
      w \in NumberAnchors, d \in (0 - MaxOffset)..MaxOffset, frac \in {"none", "half"} }
  \cup { BinderNumber(ToWide(d), "tiny") : d \in (0 - MaxOffset)..MaxOffset }

BinderValues ==
  BinderNumbers \cup {NaN, Null, Undefined, Str(""), Str("0"), Str("abc"), Bool(TRUE),
                      Bool(FALSE)}

BinderKeys == {"page", "id"}

InputFrame(_key, value) == [fn |-> "reqInput", pc |-> "begin", _key |-> _key, value |-> value]

\* #get.params hands one entry of the bag to #reqInput under the name _key
CallReqInput(key, value) ==
  /\ Len(stack) = 0
  /\ call' = [IdleCall EXCEPT !.op = "reqInput", !.params = Obj(<<Entry(key, value)>>)]
  /\ stack' = <<InputFrame("_" \o key, value)>>
  /\ ret' = NoRet
  /\ FreshHistory
  /\ UNCHANGED <<config, STORAGE, validated, pool, rw, completed, pools, tasks>>

\* the body of #reqInput
ReqInputReturn ==
  /\ Running("reqInput", "begin")
  /\ stack' = Pop
  /\ ret' = Return(reqInput(Top._key, Top.value))
  /\ UNCHANGED <<config, STORAGE, validated, pool, call, history, rw, completed, pools, tasks>>

NextInput ==
  \/ \E key \in BinderKeys, value \in BinderValues : CallReqInput(key, value)
  \/ ReqInputReturn

SpecInput == InitFor /\ [][NextInput]_vars

(***************************************************************************)
(* Properties of the binder                                                *)
(***************************************************************************)

\* Maximum value for SQL Server INT type
SQL_INT_MAX == 2147483647

\* the floor lies in the 32-bit signed range [-2147483648, 2147483647]
InInt32(w) ==
  /\ ~WideGreater(w, ToWide(SQL_INT_MAX))
  /\ ~WideGreater(WidePlus(WideNegate(ToWide(SQL_INT_MAX)), -1), w)

\* the value given to the binder call that has returned
BoundValue == call.params.a[1].value

\* C20: for a number without a fractional part the binder infers the
\* integer type exactly when the number lies in [-2147483648, 2147483647]
\* and the wide integer type exactly when it lies outside; for a number
\* with a fractional part it infers the float type.
C20_NumericTypeByRange ==
  (call.op = "reqInput" /\ Done /\ IsBinderNumber(BoundValue)) =>
    /\ BoundValue.frac = "none" =>
          /\ InInt32(BoundValue.w) => ret.value.type = "int"
          /\ ~InInt32(BoundValue.w) => ret.value.type = "BigInt"
    /\ BoundValue.frac # "none" => ret.value.type = "float"

(***************************************************************************)
(* Concurrent calls of #exec on one instance, up to the request handle     *)
(***************************************************************************)

\* the number of exec calls the callers issue on the instance
MaxCalls == 3

\* a call of #exec: conPool is its local, handle the pool its request
\* handle came from; 0 is none
ExecTask(pc, conPool, handle) == [pc |-> pc, conPool |-> conPool, handle |-> handle]

InitPool ==
  /\ config = Constructor(Undefined)
  /\ pool = 0
  /\ call = IdleCall
  /\ stack = <<>>
  /\ ret = NoRet
  /\ sent = <<>>
  /\ attempts = <<>>
  /\ lastErr = NoDriverError
  /\ lastResult = Undefined
  /\ slept = 0
  /\ fallbacks = <<>>
  /\ fallbackRet = NoRet
  /\ rw = IdleRw
  /\ STORAGE = EmptyStorage
  /\ validated = {}
  /\ completed = {}
  /\ pools = <<>>
  /\ tasks = [t \in 1..MaxCalls |-> ExecTask("idle", 0, 0)]
  /\ handled = <<>>

\* a caller invokes exec; #exec runs to its first await: with this.pool
\* set, that is past this.pool.request(); with this.pool null, it is the
\* await of the new ConnectionPool
TaskBegin(t) ==
  /\ tasks[t].pc = "idle"
  /\ IF pool # 0
     THEN /\ tasks' = [tasks EXCEPT ![t] = ExecTask("request", 0, pool)]
          /\ pools' = pools
     ELSE /\ tasks' = [tasks EXCEPT ![t] = ExecTask("created", Len(pools) + 1, 0)]
          /\ pools' = Append(pools, "created")
  /\ UNCHANGED <<config, pool, call, stack, ret, history, rw, STORAGE, validated, completed>>

\* the await of the new ConnectionPool resumes: conPool.connect() is called
TaskConnect(t) ==
  /\ tasks[t].pc = "created"
  /\ tasks' = [tasks EXCEPT ![t].pc = "connecting"]
  /\ pools' = [pools EXCEPT ![tasks[t].conPool] = "connecting"]
  /\ UNCHANGED <<config, pool, call, stack, ret, history, rw, STORAGE, validated, completed>>

\* connect() resolves: this.pool = conPool, and without another await
\* req = this.pool.request()
TaskConnected(t) ==
  /\ tasks[t].pc = "connecting"
  /\ pool' = tasks[t].conPool
  /\ pools' = [pools EXCEPT ![tasks[t].conPool] = "connected"]
  /\ tasks' = [tasks EXCEPT ![t].pc = "request", ![t].handle = tasks[t].conPool]
  /\ UNCHANGED <<config, call, stack, ret, history, rw, STORAGE, validated, completed>>

\* connect() rejects: the error leaves #exec, this.pool stays as it is
TaskConnectFailed(t) ==
  /\ tasks[t].pc = "connecting"
  /\ pools' = [pools EXCEPT ![tasks[t].conPool] = "failed"]
  /\ tasks' = [tasks EXCEPT ![t].pc = "failed"]
  /\ UNCHANGED <<config, pool, call, stack, ret, history, rw, STORAGE, validated, completed>>

NextPool ==
  \E t \in 1..MaxCalls :
    \/ TaskBegin(t)
    \/ TaskConnect(t)
    \/ TaskConnected(t)
    \/ TaskConnectFailed(t)

SpecPool == InitPool /\ [][NextPool]_vars

(***************************************************************************)
(* Properties of the pool initialisation                                   *)
(***************************************************************************)

\* the pools on which connect() was called
ConnectedPools == { p \in 1..Len(pools) : pools[p] # "created" }

\* C16: under any interleaving of concurrent exec calls on one instance, a
\* connection pool is created and connected at most once, and every call
\* gets its request handle from that same pool.
C16_OnePoolForAllCalls ==
  /\ Len(pools) <= 1
  /\ Cardinality(ConnectedPools) <= 1
  /\ \A t \in 1..MaxCalls, u \in 1..MaxCalls :
       (tasks[t].handle # 0 /\ tasks[u].handle # 0) => tasks[t].handle = tasks[u].handle

(***************************************************************************)
(* delete against the rows of a table: what the engine removes for the     *)
(* batch that delete sends                                                 *)
(***************************************************************************)

\* the rows of the tables before a delete; every delete is followed against
\* this content
StoredRows(table) ==
  IF table = "users"
  THEN << Row(<<Entry("id", Num(1)), Entry("name", Str("x")), Entry("status", Str("a"))>>),
          Row(<<Entry("id", Num(2)), Entry("name", Str("x")), Entry("status", Str("a"))>>),
          Row(<<Entry("id", Num(3)), Entry("name", Str("y")), Entry("status", Str("b"))>> ) >>
  ELSE << Row(<<Entry("id", Num(1)), Entry("name", Str("x"))>>),
          Row(<<Entry("id", Num(2)), Entry("name", Str("x"))>>) >>

DeleteTableNames == {"appdb.dbo.users", "appdb..logs"}

DeleteBags ==
  { Obj(<<>>),
    Obj(<<Entry("name", Str("x"))>>),
    Obj(<<Entry("id", Num(3))>>),
    Obj(<<Entry("name", Str("x")), Entry("id", Num(2))>>),
    Obj(<<Entry("name", Str("zz"))>>) }

\* the engine's WHERE: each condition `c = @_c` of the text holds of the row
\* for the value bound as _c
RowSatisfies(text, params, row) ==
  \A i \in 1..Len(row.a) :
    Includes(text, row.a[i].key \o " = @_" \o row.a[i].key)
      => row.a[i].value = Get(params, row.a[i].key)

\* SET ROWCOUNT 1 is in force when the DELETE of the batch runs
RowcountInForce(text) ==
  /\ Includes(text, "SET ROWCOUNT 1;")
  /\ IndexOf(text, "SET ROWCOUNT 1;") < IndexOf(text, "delete from ")

\* the positions of the rows the engine removes for the batch: the rows
\* the WHERE clause selects, and only the first of them under SET ROWCOUNT 1,
\* which stops a DELETE after that number of rows
EngineRemoves(text, params, rows) ==
  LET selected == { i \in 1..Len(rows) : RowSatisfies(text, params, rows[i]) } IN
  IF RowcountInForce(text) /\ selected # {}
  THEN { CHOOSE i \in selected : \A j \in selected : i <= j }
  ELSE selected

\* the reply to the batch: the recordset of `select @@ROWCOUNT as rowsAffected`
DeleteReply(text, params, rows) ==
  DriverResult(<<Arr(<<Row(<<Entry("rowsAffected",
                                    Num(Cardinality(EngineRemoves(text, params, rows))))>>)>>)>>)

\* what req.query may resolve to while delete runs
DeleteEngineResults ==
  IF ~Running("exec", "query") THEN {}
  ELSE IF IsIntrospection(LastSent) THEN IntrospectionResults(LastSent, Top.params)
  ELSE { DeleteReply(LastSent, Top.params, StoredRows(TableOf(call.tableName).table)) }

NextDelete ==
  \/ \E tableName \in DeleteTableNames, params \in DeleteBags :
       CallTable("delete", tableName, params)
  \/ TableValidate
  \/ ColumnsCached
  \/ ColumnsLookup
  \/ ColumnsFound
  \/ TableSynthesis
  \/ TableExecDone
  \/ ExecConnect
  \/ ExecSend
  \/ \E result \in DeleteEngineResults : DriverResolve(result)
  \/ \E err \in TableFaults : Faults < MaxTableFaults /\ DriverReject(err)
  \/ ExecRetry
  \/ ExecRetryDone
  \/ ExecFallback
  \/ ExecFallbackDone
  \/ ExecThrow

SpecDelete == InitTables /\ [][NextDelete]_vars

(***************************************************************************)
(* Properties of delete against the rows                                   *)
(***************************************************************************)

\* the positions of the rows that match the filter conditions of the bag
MatchingRows(params, rows) ==
  { i \in 1..Len(rows) :
      \A k \in 1..Len(getKeys(params)) :
        getKeys(params)[k].value.k \notin {"undefined", "null"}
          => Get(rows[i], getKeys(params)[k].key) = getKeys(params)[k].value }

\* delete has returned the reply to its DELETE batch
DeleteReturned ==
  /\ call.op = "delete" /\ Done /\ ret.kind = "return"
  /\ Len(sent) > 0 /\ IsDeleteText(LastSent)

\* C21: delete(table, filters) removes every row that matches the filter
\* conditions and reports their number as rowsAffected; the single-row cap
\* of the reply does not limit the DELETE statement to one row.
C21_DeleteRemovesEveryMatch ==
  DeleteReturned =>
    LET rows == StoredRows(TableOf(call.tableName).table) IN
    /\ EngineRemoves(LastSent, call.params, rows) = MatchingRows(call.params, rows)
    /\ ret.value = Row(<<Entry("rowsAffected",
                              Num(Cardinality(MatchingRows(call.params, rows))))>>)

(***************************************************************************)
(* Properties of the rewriter and the binder together                      *)
(***************************************************************************)

\* a value of the bag as the binder sees it
ToBinderValue(v) ==
  CASE v.k = "number" -> BinderNumber(ToWide(v.n), "none")
    [] v.k = "float" -> BinderNumber(ToWide(v.n), "half")
    [] OTHER -> v

NumericTypes == {"int", "BigInt", "float"}

\* the request of the frame has an input _name, bound with a numeric type
BoundNumeric(f, name) ==
  /\ \E i \in 1..Len(f.req) : f.req[i] = "_" \o name
  /\ reqInput("_" \o name, ToBinderValue(Get(f.params, name))).type \in NumericTypes

\* C26: whenever the statement handed to the driver holds the injected
\* clause OFFSET @_page * @_limit ROWS FETCH NEXT @_limit ROWS ONLY, the
\* request has _page and _limit bound with numeric values, for every bag
\* that brings the injection about, limit = 0 without a page included.
C26_PagingParametersBound ==
  (Running("exec", "query") /\ Includes(LastSent, PagingClause)) =>
    /\ BoundNumeric(Top, "page")
    /\ BoundNumeric(Top, "limit")

(***************************************************************************)
(* Two lookups of #get.schema in flight at once                            *)
(***************************************************************************)

LookupKinds == {"primaryKey", "columns"}

\* the names looked up: those of the three tables and a name of no table
LookupTableNames == TableNames \cup KeyedTableNames

\* a lookup in flight: where it is, the entry it holds, what it returned
\* and the number of queries it has sent
LookupTask(kind, tableName, pc, key, value, queries) ==
  [kind |-> kind, tableName |-> tableName, pc |-> pc, key |-> key, value |-> value,
   queries |-> queries]

IdleLookup == LookupTask("", "", "idle", Undefined, Undefined, 0)

\* mutant: the schema changes between the queries, a query may be
\* answered with the rows of any table
ExecReplies_AnySchema(text, params, options) ==
  { ShapeResult(DriverResult(<<Arr(TableRows(text, t))>>), normalizeExecOptions(options)) :
      t \in DbTables }

\* what await this.exec(qry, { table, schema }, options) may resolve to
\* against the schema of the database
ExecReplies(text, params, options) ==
  { ShapeResult(r, normalizeExecOptions(options)) : r \in IntrospectionResults(text, params) }

\* const columns = res.map((r) => r.column_name)
ColumnNames(res) == Arr([i \in 1..Len(res.a) |-> Get(res.a[i], "column_name")])

\* each of the two callers calls primaryKey or columns once; the call runs
\* to its first await: it returns the cached entry, or sends its first query
CallLookup(i, kind, tableName) ==
  /\ tasks[i].pc = "idle"
  /\ LET storage == IF kind = "primaryKey" THEN STORAGE.keys[tableName]
                    ELSE STORAGE.columns[tableName]
     IN tasks' = [tasks EXCEPT ![i] =
                    IF IsCached(storage)
                    THEN LookupTask(kind, tableName, "returned", Undefined, storage, 0)
                    ELSE LookupTask(kind, tableName, "first", Undefined, Undefined, 1)]
  /\ UNCHANGED <<config, pool, call, stack, ret, history, rw, STORAGE, validated,
                 completed, pools>>

\* the first query of primaryKey settled
KeyFirstSettled(i) ==
  /\ tasks[i].pc = "first"
  /\ tasks[i].kind = "primaryKey"
  /\ \E reply \in ExecReplies(PrimaryKeyQuery(tasks[i].tableName),
                              SchemaBag(tasks[i].tableName), Bool(TRUE)) :
       LET res == OrEmpty(reply)
           entry == KeyEntry(Get(res, "column_name"), Get(res, "isIdentity"))
       IN IF ~Truthy(Get(res, "column_name"))
          THEN /\ tasks' = [tasks EXCEPT ![i].pc = "second", ![i].key = entry,
                                        ![i].queries = 2]
               /\ STORAGE' = STORAGE
          ELSE /\ STORAGE' = [STORAGE EXCEPT !.keys[tasks[i].tableName] = entry]
               /\ tasks' = [tasks EXCEPT ![i].pc = "returned", ![i].value = entry]
  /\ UNCHANGED <<config, pool, call, stack, ret, history, rw, validated, completed, pools>>

\* the second query of primaryKey settled
KeySecondSettled(i) ==
  /\ tasks[i].pc = "second"
  /\ \E reply \in ExecReplies(IdentityFallbackQuery(tasks[i].tableName),
                              SchemaBag(tasks[i].tableName), Bool(TRUE)) :
       LET colRes == OrEmpty(reply)
           entry == KeyEntry(Get(colRes, "column_name"), Get(tasks[i].key, "isIdentity"))
       IN /\ STORAGE' = [STORAGE EXCEPT !.keys[tasks[i].tableName] = entry]
          /\ tasks' = [tasks EXCEPT ![i].pc = "returned", ![i].value = entry]
  /\ UNCHANGED <<config, pool, call, stack, ret, history, rw, validated, completed, pools>>

\* the query of columns settled
ColumnsSettled(i) ==
  /\ tasks[i].pc = "first"
  /\ tasks[i].kind = "columns"
  /\ \E res \in ExecReplies(ColumnsQuery(tasks[i].tableName),
                            SchemaBag(tasks[i].tableName), Undefined) :
       IF Len(res.a) = 0
       THEN /\ tasks' = [tasks EXCEPT ![i].pc = "threw"]
            /\ STORAGE' = STORAGE
       ELSE /\ STORAGE' = [STORAGE EXCEPT !.columns[tasks[i].tableName] = ColumnNames(res)]
            /\ tasks' = [tasks EXCEPT ![i].pc = "returned", ![i].value = ColumnNames(res)]
  /\ UNCHANGED <<config, pool, call, stack, ret, history, rw, validated, completed, pools>>

\* the query in flight threw: the lookup throws and writes nothing
LookupRejected(i) ==
  /\ tasks[i].pc \in {"first", "second"}
  /\ tasks' = [tasks EXCEPT ![i].pc = "threw"]
  /\ UNCHANGED <<config, pool, call, stack, ret, history, rw, STORAGE, validated,
                 completed, pools>>

InitLookups ==
  /\ config = Constructor(Undefined)
  /\ pool = 0
  /\ call = IdleCall
  /\ stack = <<>>
  /\ ret = NoRet
  /\ sent = <<>>
  /\ attempts = <<>>
  /\ lastErr = NoDriverError
  /\ lastResult = Undefined
  /\ slept = 0
  /\ fallbacks = <<>>
  /\ fallbackRet = NoRet
  /\ rw = IdleRw
  /\ STORAGE = EmptyStorage
  /\ validated = {}
  /\ completed = {}
  /\ pools = <<>>
  /\ tasks = <<IdleLookup, IdleLookup>>
  /\ handled = <<>>

NextLookups ==
  \/ \E i \in 1..2, kind \in LookupKinds, tableName \in LookupTableNames :
       CallLookup(i, kind, tableName)
  \/ \E i \in 1..2 : KeyFirstSettled(i)
  \/ \E i \in 1..2 : KeySecondSettled(i)
  \/ \E i \in 1..2 : ColumnsSettled(i)
  \/ \E i \in 1..2 : LookupRejected(i)

SpecLookups == InitLookups /\ [][NextLookups]_vars

\* the entries a lookup running alone writes for the table
EntriesAlone(kind, tableName) ==
  IF kind = "columns"
  THEN { ColumnNames(res) :
           res \in ExecReplies(ColumnsQuery(tableName), SchemaBag(tableName), Undefined) }
  ELSE UNION {
         LET res == OrEmpty(first)
         IN IF Truthy(Get(res, "column_name"))
            THEN { KeyEntry(Get(res, "column_name"), Get(res, "isIdentity")) }
            ELSE { KeyEntry(Get(OrEmpty(second), "column_name"), Get(res, "isIdentity")) :
                     second \in ExecReplies(IdentityFallbackQuery(tableName),
                                            SchemaBag(tableName), Bool(TRUE)) } :
         first \in ExecReplies(PrimaryKeyQuery(tableName), SchemaBag(tableName), Bool(TRUE)) }

CacheEntry(kind, tableName) ==
  IF kind = "columns" THEN STORAGE.columns[tableName] ELSE STORAGE.keys[tableName]

MaxElems == 2

SetElements == {Num(0), Num(7), Str("0"), Str("a")}

ElementSeqs == UNION { [1..n -> SetElements] : n \in 0..MaxElems }

\* the values of the parameter: arrays, Sets (no element twice), an
\* object, and scalars
SetValues ==
  { Arr(e) : e \in ElementSeqs }
  \cup { JsSet(e) : e \in { q \in ElementSeqs :
                              \A i, j \in 1..Len(q) : q[i] = q[j] => i = j } }
  \cup { Obj(<<Entry("a", Num(1))>>), Num(0), Num(7), Str("0"), Str("[1]"), Null,
         Undefined }

SetStatements ==
  { "select * from t where id in (@_ids)",
    "select * from t where id = @_ids" }

BindFrame(query, params) ==
  [fn |-> "bind", pc |-> "params", query |-> query, params |-> params, bound |-> <<>>]

\* #exec with the bag { ids: value }
CallBind(query, value) ==
  /\ Len(stack) = 0
  /\ call' = [IdleCall EXCEPT !.op = "bind", !.query = query,
                              !.params = Obj(<<Entry("ids", value)>>)]
  /\ stack' = <<BindFrame(query, Obj(<<Entry("ids", value)>>))>>
  /\ ret' = NoRet
  /\ FreshHistory
  /\ UNCHANGED <<config, STORAGE, validated, pool, rw, completed, pools, tasks>>

\* req = this.#get.params(req, params): #reqInput of every entry
BindParams ==
  /\ Running("bind", "params")
  /\ stack' = SetTop([Top EXCEPT
       !.pc = "query",
       !.bound = [i \in 1..Len(getKeys(Top.params)) |->
                    [name |-> "_" \o getKeys(Top.params)[i].key,
                     input |-> reqInput("_" \o getKeys(Top.params)[i].key,
                                        ToBinderValue(getKeys(Top.params)[i].value))]]])
  /\ UNCHANGED <<config, STORAGE, validated, pool, call, ret, history, rw, completed,
                 pools, tasks>>

\* query = this.#get.query(query, params)
BindQuery ==
  /\ Running("bind", "query")
  /\ stack' = Pop
  /\ ret' = Return([bound |-> Top.bound,
                    query |-> getQuery(Top.query, Top.params, FALSE, UseOpenJson).query])
  /\ UNCHANGED <<config, STORAGE, validated, pool, call, history, rw, completed, pools,
                 tasks>>

InitSets ==
  /\ config \in { Constructor(a) : a \in ConfigArgs }
  /\ pool = 0
  /\ call = IdleCall
  /\ stack = <<>>
  /\ ret = NoRet
  /\ sent = <<>>
  /\ attempts = <<>>
  /\ lastErr = NoDriverError
  /\ lastResult = Undefined
  /\ slept = 0
  /\ fallbacks = <<>>
  /\ fallbackRet = NoRet
  /\ rw = IdleRw
  /\ STORAGE = EmptyStorage
  /\ validated = {}
  /\ completed = {}
  /\ pools = <<>>
  /\ tasks = <<>>
  /\ handled = <<>>

NextSets ==
  \/ \E query \in SetStatements, value \in SetValues : CallBind(query, value)
  \/ BindParams
  \/ BindQuery

SpecSets == InitSets /\ [][NextSets]_vars

\* the rewriter expanded the membership test on the parameter
MembershipExpanded(text, key) == Includes(text, "openjson(@_" \o key \o ")")

\* the binder bound the parameter as the text of a JSON array in the
\* maximal-width textual type
BoundAsArrayText(input) ==
  /\ input.type = "NVarChar(max)"
  /\ input.value.k = "string"
  /\ Len(input.value.s) > 0
  /\ CharAt(input.value.s, 1) = "["

\* C28: with the rewriting on, for a parameter referenced in a membership
\* test, the rewriter expands the test exactly when the binder bound the
\* parameter as JSON array text in the maximal-width textual type.
C28_BinderAndRewriterAgree ==
  (/\ call.op = "bind" /\ Done /\ UseOpenJson
   /\ extractOpenJson(call.query) = <<"ids">>) =>
    (MembershipExpanded(ret.value.query, "ids")
       <=> BoundAsArrayText(ret.value.bound[1].input))

(***************************************************************************)
(* Lookups through two instances of DB, one after the other                *)
(***************************************************************************)

\* the databases the two instances are configured for
InstanceDatabases == {"appdb", "otherdb"}

InstanceTableNames == {"appdb.dbo.users", "tags"}

\* new DB({ database })
InstanceConfig(database) == Constructor(Obj(<<Entry("database", Str(database))>>))

\* the database of the instance the call in flight runs on
ThisDatabase == Get(config, "database").s

\* mutant: a cache with one entry per database and table name
CacheRead_PerDatabase(kind, tableName, database) ==
  IF <<kind, tableName, database>> \in completed
  THEN IF kind = "primaryKey" THEN STORAGE.keys[tableName] ELSE STORAGE.columns[tableName]
  ELSE Undefined

\* const storage = STORAGE.keys[tableName], STORAGE.columns[tableName]:
\* STORAGE is a constant of the module, the same for every instance
CacheRead(kind, tableName, database) ==
  IF kind = "primaryKey" THEN STORAGE.keys[tableName] ELSE STORAGE.columns[tableName]

\* a call of primaryKey or columns on the instance configured for the
\* database, after the call before it has settled; completed keeps which
\* instance's lookup wrote an entry
CallLookupOn(database, kind, tableName) ==
  /\ tasks[1].pc \in {"idle", "returned", "threw"}
  /\ config' = InstanceConfig(database)
  /\ completed' = IF tasks[1].pc = "returned" /\ tasks[1].queries > 0
                  THEN completed \cup {<<tasks[1].kind, tasks[1].tableName, ThisDatabase>>}
                  ELSE completed
  /\ \E storage \in {CacheRead(kind, tableName, database)} :
       tasks' = [tasks EXCEPT ![1] =
                   IF IsCached(storage)
                   THEN LookupTask(kind, tableName, "returned", Undefined, storage, 0)
                   ELSE LookupTask(kind, tableName, "first", Undefined, Undefined, 1)]
  /\ UNCHANGED <<pool, call, stack, ret, history, rw, STORAGE, validated, pools>>

NextInstances ==
  \/ \E database \in InstanceDatabases, kind \in LookupKinds,
        tableName \in InstanceTableNames : CallLookupOn(database, kind, tableName)
  \/ KeyFirstSettled(1)
  \/ KeySecondSettled(1)
  \/ ColumnsSettled(1)
  \/ LookupRejected(1)

SpecInstances == InitLookups /\ [][NextInstances]_vars

\* a lookup through an instance of another database wrote the entry
WrittenThroughAnother(kind, tableName) ==
  \E database \in InstanceDatabases :
    database # ThisDatabase /\ <<kind, tableName, database>> \in completed

\* C30: a lookup of a table name for which a lookup through an instance of
\* another database has written the entry returns that entry and sends no
\* introspection query.
C30_CacheSharedAcrossInstances ==
  (/\ tasks[1].pc # "idle"
   /\ WrittenThroughAnother(tasks[1].kind, tasks[1].tableName)) =>
    /\ tasks[1].pc = "returned"
    /\ tasks[1].queries = 0
    /\ tasks[1].value = CacheEntry(tasks[1].kind, tasks[1].tableName)

\* the instance of otherdb, which has no table tags, returned the columns
\* of tags that a lookup through the instance of appdb had cached
C30_Witness ==
  /\ ThisDatabase = "otherdb"
  /\ tasks[1] = LookupTask("columns", "tags", "returned", Undefined,
                           Arr(<<Str("name")>>), 0)
  /\ <<"columns", "tags", "appdb">> \in completed

====
